---- MODULE Spec2Model ----
(***************************************************************************)
(* Shipment-tracking attachment (PATCH /order/:id/tracking) and the        *)
(* reconciliation scheduler (poll-due) of the marketplace backend.         *)
(* Text values that the code parses, trims, lower-cases or matches with a  *)
(* regular expression are sequences of one-character strings; the closed   *)
(* enumerations (shipment status, notification type) are plain strings.    *)
(* Times are whole hours.                                                  *)
(***************************************************************************)
EXTENDS Integers, Sequences, FiniteSets, TLC

(* ------------------------------ text ---------------------------------- *)

UpperChars == <<"A","B","C","D","E","F","G","H","I","J","K","L","M","N","O","P","Q","R","S","T","U","V","W","X","Y","Z">>
LowerChars == <<"a","b","c","d","e","f","g","h","i","j","k","l","m","n","o","p","q","r","s","t","u","v","w","x","y","z">>
DigitChars == {"0","1","2","3","4","5","6","7","8","9"}

UpperSet == {UpperChars[i] : i \in 1..26}
LowerSet == {LowerChars[i] : i \in 1..26}
LowerOf == [c \in UpperSet |-> LowerChars[CHOOSE i \in 1..26 : UpperChars[i] = c]]
UpperOf == [c \in LowerSet |-> UpperChars[CHOOSE i \in 1..26 : LowerChars[i] = c]]

\* String.prototype.toLowerCase / toUpperCase, one character
LowerChar(c) == IF c \in UpperSet THEN LowerOf[c] ELSE c
UpperChar(c) == IF c \in LowerSet THEN UpperOf[c] ELSE c
toLowerCase(s) == [i \in 1..Len(s) |-> LowerChar(s[i])]
toUpperCase(s) == [i \in 1..Len(s) |-> UpperChar(s[i])]

\* a trim that is left out
trimNothing(s) == s

\* String.prototype.trim: drop leading and trailing blanks
trim(s) ==
  LET keep == {i \in 1..Len(s) : s[i] # " "}
  IN  IF keep = {} THEN <<>>
      ELSE SubSeq(s, CHOOSE i \in keep : \A j \in keep : i <= j,
                     CHOOSE i \in keep : \A j \in keep : i >= j)

\* s.replace(/\s+/g, ""): drop every blank
RECURSIVE stripSpaces(_)
stripSpaces(s) ==
  IF s = <<>> THEN <<>>
  ELSE IF Head(s) = " " THEN stripSpaces(Tail(s))
  ELSE <<Head(s)>> \o stripSpaces(Tail(s))

\* String.prototype.includes, and an un-anchored regular expression of
\* alternative literals tested against s
includes(s, sub) ==
  \E i \in 1..(Len(s) - Len(sub) + 1) : SubSeq(s, i, i + Len(sub) - 1) = sub
matchesAny(s, words) == \E w \in words : includes(s, w)

(* ------------------------------ enums --------------------------------- *)

PENDING == "pending"
PROCESSING == "processing"
SHIPPED == "shipped"
IN_TRANSIT == "in_transit"
OUT_FOR_DELIVERY == "out_for_delivery"
DELIVERED == "delivered"
EXCEPTION == "exception"
RETURNED == "returned"
SHIPMENT_STATUS ==
  {PENDING, PROCESSING, SHIPPED, IN_TRANSIT, OUT_FOR_DELIVERY, DELIVERED,
   EXCEPTION, RETURNED}

\* the value of a property an object does not have
Undefined == "undefined"

NOTIFICATION_TYPE ==
  [DELIVERY_DETAILS_SUBMITTED |-> "delivery_details_submitted",
   ORDER_PAID |-> "order_paid",
   ORDER_NEEDS_SHIPPING |-> "order_needs_shipping",
   ORDER_SHIPPED |-> "order_shipped",
   ORDER_DELIVERED |-> "order_delivered",
   PROFILE_VIEW |-> "profile_view",
   LIKE_RECEIVED |-> "like_received",
   IMAGE_APPROVED |-> "image_approved",
   IMAGE_REJECTED |-> "image_rejected"]

\* NOTIFICATION_TYPE.<key>
NotificationType(key) ==
  IF key \in DOMAIN NOTIFICATION_TYPE THEN NOTIFICATION_TYPE[key] ELSE Undefined

\* the schema's enum of the type path
TYPE_ENUM == {NOTIFICATION_TYPE[k] : k \in DOMAIN NOTIFICATION_TYPE}

\* the types the two handlers hand to Notification.create
ORDER_SHIPPED == NotificationType("ORDER_SHIPPED")
ORDER_OUT_FOR_DELIVERY == NotificationType("ORDER_OUT_FOR_DELIVERY")
ORDER_DELIVERED == NotificationType("ORDER_DELIVERED")

\* Notification.create(...).catch(...) for each type in turn: the schema
\* requires type and checks it against TYPE_ENUM, a rejected create is
\* swallowed by the caller, so what exists afterwards is the valid ones
NotificationCreate(types) == SelectSeq(types, LAMBDA ty : ty \in TYPE_ENUM)

\* values of an optional Date field: undefined (never stored), null, a time
Absent == [k |-> "absent"]
Null == [k |-> "null"]
At(t) == [k |-> "date", t |-> t]
IsDate(v) == v.k = "date"

(* ------------------------- status normalizers ------------------------- *)

\* the absent text value (undefined / null / "")
NoText == <<>>

\* a mapper that leaves an unknown tag pending
mapStatusUnknownPending(s) ==
  LET v == toLowerCase(s) IN
  IF v = <<"i","n","_","t","r","a","n","s","i","t">> THEN IN_TRANSIT
  ELSE IF v = <<"o","u","t","_","f","o","r","_","d","e","l","i","v","e","r","y">> THEN OUT_FOR_DELIVERY
  ELSE IF v = <<"d","e","l","i","v","e","r","e","d">> THEN DELIVERED
  ELSE IF v \in { <<"a","v","a","i","l","a","b","l","e","_","f","o","r","_","p","i","c","k","u","p">>, <<"e","x","c","e","p","t","i","o","n">>, <<"f","a","i","l","e","d","_","a","t","t","e","m","p","t">>,
                  <<"r","e","t","u","r","n","_","t","o","_","s","e","n","d","e","r">> } THEN EXCEPTION
  ELSE IF v \in { NoText, <<"p","e","n","d","i","n","g">>, <<"i","n","f","o","_","r","e","c","e","i","v","e","d">>, <<"i","n","f","o","r","e","c","e","i","v","e","d">>,
                  <<"p","r","e","_","t","r","a","n","s","i","t">> } THEN SHIPPED
  ELSE PENDING

\* mapStatus: AfterShip tag -> SHIPMENT_STATUS
mapStatus(s) ==
  LET v == toLowerCase(s) IN
  IF v \in { <<"p","e","n","d","i","n","g">>,
            <<"i","n","f","o","_","r","e","c","e","i","v","e","d">>,
            <<"i","n","f","o","r","e","c","e","i","v","e","d">>,
            <<"p","r","e","_","t","r","a","n","s","i","t">> }
    THEN SHIPPED
  ELSE IF v = <<"i","n","_","t","r","a","n","s","i","t">> THEN IN_TRANSIT
  ELSE IF v = <<"o","u","t","_","f","o","r","_","d","e","l","i","v","e","r","y">> THEN OUT_FOR_DELIVERY
  ELSE IF v = <<"d","e","l","i","v","e","r","e","d">> THEN DELIVERED
  ELSE IF v \in { <<"a","v","a","i","l","a","b","l","e","_","f","o","r","_","p","i","c","k","u","p">>,
            <<"e","x","c","e","p","t","i","o","n">>,
            <<"f","a","i","l","e","d","_","a","t","t","e","m","p","t">>,
            <<"r","e","t","u","r","n","_","t","o","_","s","e","n","d","e","r">> }
    THEN EXCEPTION
  ELSE SHIPPED

\* mapUpsStatus: UPS currentStatus {code, description} -> SHIPMENT_STATUS
mapUpsStatus(upsStatusObj) ==
  LET code == toUpperCase(upsStatusObj.code)
      desc == toLowerCase(upsStatusObj.description)
  IN
  IF code = <<"D">> \/ includes(desc, <<"d","e","l","i","v","e","r","e","d">>) THEN DELIVERED
  ELSE IF code = <<"O">> \/ includes(desc, <<"o","u","t"," ","f","o","r"," ","d","e","l","i","v","e","r","y">>)
    THEN OUT_FOR_DELIVERY
  ELSE IF code = <<"I">> \/ matchesAny(desc,
      { <<"i","n"," ","t","r","a","n","s","i","t">>,
        <<"a","r","r","i","v","e","d">>,
        <<"d","e","p","a","r","t","e","d">>,
        <<"o","r","i","g","i","n"," ","s","c","a","n">>,
        <<"d","e","s","t","i","n","a","t","i","o","n"," ","s","c","a","n">> })
    THEN IN_TRANSIT
  ELSE IF matchesAny(desc,
      { <<"e","x","c","e","p","t","i","o","n">>,
        <<"f","a","i","l","e","d"," ","a","t","t","e","m","p","t">>,
        <<"r","e","t","u","r","n"," ","t","o"," ","s","e","n","d","e","r">>,
        <<"h","o","l","d">> })
    THEN EXCEPTION
  ELSE SHIPPED

\* mapFedexStatus: FedEx latestStatusDetail -> SHIPMENT_STATUS
\* (an object with none of the three fields stringifies to "[object Object]",
\* which matches no keyword, as the empty text does)
mapFedexStatus(obj) ==
  LET first == IF obj.description # NoText THEN obj.description
               ELSE IF obj.statusByLocale # NoText THEN obj.statusByLocale
               ELSE obj.code
      raw == toLowerCase(first)
  IN
  IF includes(raw, <<"d","e","l","i","v","e","r","e","d">>) THEN DELIVERED
  ELSE IF includes(raw, <<"o","u","t"," ","f","o","r"," ","d","e","l","i","v","e","r","y">>)
    THEN OUT_FOR_DELIVERY
  ELSE IF matchesAny(raw,
      { <<"i","n"," ","t","r","a","n","s","i","t">>,
        <<"o","n"," ","i","t","s"," ","w","a","y">>,
        <<"d","e","p","a","r","t","e","d">>,
        <<"a","r","r","i","v","e","d">>,
        <<"a","t"," ","f","e","d","e","x"," ","l","o","c","a","t","i","o","n">>,
        <<"a","t"," ","l","o","c","a","l"," ","f","a","c","i","l","i","t","y">> })
    THEN IN_TRANSIT
  ELSE IF matchesAny(raw,
      { <<"e","x","c","e","p","t","i","o","n">>,
        <<"f","a","i","l","e","d">>,
        <<"d","e","l","i","v","e","r","y"," ","e","x","c","e","p","t","i","o","n">>,
        <<"h","o","l","d">>,
        <<"r","e","t","u","r","n">> })
    THEN EXCEPTION
  ELSE SHIPPED

(* --------------------------- poll schedule ---------------------------- *)

Min(a, b) == IF a <= b THEN a ELSE b

MAX_ATTEMPTS == 120
BATCH_LIMIT == 50

\* a cadence table with the in-transit and shipped rows exchanged
baseHoursSwapped(status) ==
  IF status = OUT_FOR_DELIVERY THEN 2
  ELSE IF status = IN_TRANSIT THEN 12
  ELSE IF status = SHIPPED THEN 6
  ELSE 12

\* computeNextPollAt: base cadence by status
baseHours(status) ==
  IF status = OUT_FOR_DELIVERY THEN 2
  ELSE IF status = IN_TRANSIT THEN 6
  ELSE IF status = SHIPPED THEN 12
  ELSE IF status = EXCEPTION THEN 12
  ELSE 12

\* a backoff that is never capped
pollHoursUncapped(status, attempts) == baseHours(status) + attempts \div 3

\* computeNextPollAt: hours added to the current time
pollHours(status, attempts) ==
  LET extra == Min(24 - baseHours(status), attempts \div 3)
  IN  Min(baseHours(status) + extra, 24)

\* computeNextPollAt(status, attempts), called at time t
computeNextPollAt(status, attempts, t) == At(t + pollHours(status, attempts))

(* ------------------------------ carriers ------------------------------ *)

\* toTitleCaseCarrier of the order routes: slug or name -> stored carrier
toTitleCaseCarrier(slugOrName) ==
  LET s == toLowerCase(slugOrName) IN
  IF includes(s, <<"u","s","p","s">>) THEN <<"U","S","P","S">>
  ELSE IF includes(s, <<"u","p","s">>) THEN <<"U","P","S">>
  ELSE IF includes(s, <<"f","e","d","e","x">>) THEN <<"F","e","d","E","x">>
  ELSE IF includes(s, <<"d","h","l">>) THEN <<"D","H","L">>
  ELSE IF slugOrName # NoText THEN slugOrName
  ELSE <<"U","S","P","S">>

\* ShippingSchema.carrier enum
CARRIERS ==
  { <<"U","S","P","S">>, <<"U","P","S">>, <<"F","e","d","E","x">>, <<"D","H","L">>, <<"C","a","n","a","d","a","P","o","s","t">>, <<"R","o","y","a","l","M","a","i","l">>,
    <<"A","u","s","t","r","a","l","i","a","P","o","s","t">>, <<"L","a","P","o","s","t","e">>, <<"D","e","u","t","s","c","h","e","P","o","s","t">> }

\* toTitleCaseCarrier of the order model: the setter of ShippingSchema.carrier
carrierSetter(val) ==
  LET key == toLowerCase(stripSpaces(val))
      hit == {c \in CARRIERS : toLowerCase(c) = key}
  IN  IF val = NoText THEN val
      ELSE IF hit # {} THEN CHOOSE c \in hit : TRUE
      ELSE val

\* the enum validator of ShippingSchema.carrier, run by order.save()
carrierValid(val) == val = NoText \/ val \in CARRIERS

\* /^1Z[0-9A-Z]{16}$/.test(tn)
isUpsPattern(tn) ==
  /\ Len(tn) = 18
  /\ tn[1] = "1"
  /\ tn[2] = "Z"
  /\ \A i \in 3..18 :
       tn[i] \in DigitChars \/ tn[i] \in UpperSet

\* UPS_TEST_NUMBERS: the public UPS demo numbers
UPS_TEST_NUMBERS ==
  { <<"1","Z","1","2","3","4","5","E","0","2","9","1","9","8","0","7","9","3">>,
    <<"1","Z","1","2","3","4","5","E","1","5","1","2","3","4","5","6","7","6">>,
    <<"1","Z","1","2","3","4","5","E","6","6","1","5","2","7","2","2","3","4">>,
    <<"1","Z","1","2","3","4","5","E","0","2","0","5","2","7","1","6","8","8">>,
    <<"1","Z","1","2","3","4","5","E","1","3","9","2","6","5","4","4","3","5">>,
    <<"1","Z","1","2","3","4","5","E","6","8","9","2","4","1","0","8","4","6">> }

isTestTrackingNumber(tn) == toUpperCase(stripSpaces(tn)) \in UPS_TEST_NUMBERS

(* --------------------------- tracking events -------------------------- *)

RECURSIVE digitsOnly(_)
\* s.replace(/\D/g, "")
digitsOnly(s) ==
  IF s = <<>> THEN <<>>
  ELSE IF Head(s) \in DigitChars THEN <<Head(s)>> \o digitsOnly(Tail(s))
  ELSE digitsOnly(Tail(s))

DigitSeq == <<"0","1","2","3","4","5","6","7","8","9">>
RECURSIVE Number(_)
\* Number(d) of a text of decimal digits
Number(d) ==
  IF d = <<>> THEN 0
  ELSE 10 * Number(SubSeq(d, 1, Len(d) - 1))
       + (CHOOSE n \in 0..9 : DigitSeq[n + 1] = d[Len(d)])

\* parseUpsDate(ymd, hms): the arguments handed to Date.UTC, or undefined
parseUpsDate(ymd, hms) ==
  LET d == digitsOnly(ymd)
      t == digitsOnly(hms)
      hh == IF Len(t) >= 2 THEN Number(SubSeq(t, 1, 2)) ELSE 0
      mm == IF Len(t) >= 4 THEN Number(SubSeq(t, 3, 4)) ELSE 0
      ss == IF Len(t) >= 6 THEN Number(SubSeq(t, 5, 6)) ELSE 0
  IN  IF Len(d) # 8 THEN Absent
      ELSE [k |-> "date",
            utc |-> <<Number(SubSeq(d, 1, 4)), Number(SubSeq(d, 5, 6)) - 1,
                      Number(SubSeq(d, 7, 8)), hh, mm, ss>>]

\* an ISO-8601 text is carried as [k |-> "iso", t |-> hour], any other text as
\* [k |-> "garbage"], a missing one as [k |-> "missing"]
\* parseFedexDate(iso), and new Date(c.checkpoint_time) guarded by isNaN
parseFedexDate(iso) == IF iso.k = "iso" THEN At(iso.t) ELSE Absent

\* a || b on text values
Or(a, b) == IF a # NoText THEN a ELSE b

RECURSIVE joinComma(_)
joinComma(parts) ==
  IF parts = <<>> THEN <<>>
  ELSE IF Len(parts) = 1 THEN parts[1]
  ELSE parts[1] \o <<",", " ">> \o joinComma(Tail(parts))

\* [a, b, c].filter(Boolean).join(", ")
joinParts(parts) == joinComma(SelectSeq(parts, LAMBDA x : x # NoText))

\* events.filter(e => !("datetime" in e) || (e.datetime instanceof Date && !isNaN(e.datetime)))
validEvents(events) ==
  SelectSeq(events, LAMBDA e : e.datetime = Absent \/ IsDate(e.datetime))

\* the UPS activity -> event mapping of the attachment handler
upsEventAttach(a) ==
  [status |-> toLowerCase(Or(a.description, a.city)),
   message |-> Or(a.description, a.activityScan),
   location |-> joinParts(<<a.city, a.stateProvince, a.country>>),
   datetime |-> parseUpsDate(a.date, a.time)]

\* the UPS activity -> event mapping of pollDueHandler
upsEventPoll(a) ==
  [status |-> toLowerCase(a.description),
   message |-> Or(a.description, a.activityScan),
   location |-> joinParts(<<a.city, a.stateProvince, a.country>>),
   datetime |-> parseUpsDate(a.date, a.time)]

\* the FedEx scan -> event mapping (attachment handler and pollDueHandler)
fedexEvent(ev, latest) ==
  [status |-> toLowerCase(Or(ev.eventDescription, ev.derivedStatus)),
   message |-> Or(Or(ev.eventDescription, ev.derivedStatus), latest.description),
   location |-> joinParts(<<ev.city, ev.stateOrProvinceCode, ev.countryCode>>),
   datetime |-> parseFedexDate(ev.date)]

\* the AfterShip checkpoint -> event mapping (attachment handler and pollDueHandler)
aftershipEvent(c) ==
  [status |-> toLowerCase(c.tag),
   message |-> c.message,
   location |-> joinParts(<<c.city, c.state, c.country_name>>),
   datetime |-> parseFedexDate(c.checkpoint_time)]

MapSeq(s, Op(_)) == [i \in 1..Len(s) |-> Op(s[i])]

(* ------------------------------- bounds -------------------------------- *)

\* the clock runs from StartTime to StartTime + MaxTicks
MaxTicks == 1
\* the hour at which the model starts
StartTime == 96
\* the largest pollAttempts handed to computeNextPollAt on its own
ProbeAttempts == 130
\* records of one poll-due run that are followed
MaxProcessed == 2
\* token getter calls that are followed
MaxCalls == 2

(* ------------------------------- state --------------------------------- *)

VARIABLES
  now,      \* the wall clock, in hours
  env,      \* process.env: UPS_ENV, UPS_ALLOW_TEST_NUMBERS, CRON_SECRET
  orders,   \* the orders collection: id -> persisted document
  att,      \* the PATCH /order/:id/tracking request in flight
  poll,     \* the poll-due invocations in flight
  last,     \* what the latest handler step did: response, notifications, calls
  tok       \* the OAuth token caches of the process, and its clock in seconds

vars == <<now, env, orders, att, poll, last, tok>>

OrderIds == {"o1", "o2"}
\* an id that names no order
NoSuchOrder == "o9"
Users == {"seller", "buyer"}
Pollers == {"p1", "p2"}

\* an order as OrderModel creates it: ShippingSchema defaults, no tracking
NewOrder ==
  [artistUserId |-> "seller",
   trackingNumber |-> NoText,
   carrier |-> NoText,
   shipmentStatus |-> PENDING,
   shippedAt |-> Absent,
   deliveredAt |-> Absent,
   verified |-> FALSE,
   trackingEvents |-> <<>>,
   pollAttempts |-> 0,
   nextPollAt |-> Absent,
   lastPolledAt |-> Absent]

ShippingFields ==
  {"trackingNumber", "carrier", "shipmentStatus", "shippedAt", "deliveredAt",
   "verified", "trackingEvents", "pollAttempts", "nextPollAt", "lastPolledAt"}

\* order.save(): Mongoose writes the paths whose value was changed since the
\* document was loaded and leaves the other paths of the stored document alone
save(stored, loaded, doc) ==
  [f \in DOMAIN stored |-> IF doc[f] # loaded[f] THEN doc[f] ELSE stored[f]]

\* the validators order.save() runs before writing
validates(doc) ==
  /\ carrierValid(doc.carrier)
  /\ doc.shipmentStatus \in SHIPMENT_STATUS

IdleAtt == [pc |-> "idle"]
IdlePoll == [pc |-> "idle"]

\* the token caches as the module is loaded: UPS_TOKEN and FEDEX_TOKEN null
\* with expiry 0, UPS_TOKEN_CACHE empty; the clock reads StartSec
NoToken == [scope |-> "null", n |-> 0]
StartSec == 1000
NoTokens ==
  [sec |-> StartSec, calls |-> 0,
   UPS_TOKEN |-> NoToken, UPS_TOKEN_EXP |-> 0,
   FEDEX_TOKEN |-> NoToken, FEDEX_TOKEN_EXP |-> 0,
   UPS_TOKEN_CACHE |-> [x \in {} |-> [token |-> NoToken, exp |-> 0]]]

(* ------------------------------- inputs -------------------------------- *)

\* req.body.trackingNumber: missing, blank, a UPS demo number typed in lower
\* case with blanks around it, a number of no UPS shape
TrackingNumberInputs ==
  { NoText, <<" "," ">>, <<" ","1","z","1","2","3","4","5","e","0","2","9","1","9","8","0","7","9","3"," ">>, <<"9","4","0","0","1","x">> }

\* req.body.carrier
CarrierInputs == { NoText, <<"u","p","s">>, <<"F","e","d","E","x">>, <<" ","U","S","P","S"," ">> }

NoActivity ==
  [date |-> NoText, time |-> NoText, description |-> NoText,
   activityScan |-> NoText, city |-> NoText, stateProvince |-> NoText,
   country |-> NoText]

\* pkg.activity of a UPS answer: a scan with a date and one whose date is
\* no date
SomeActivity ==
  << [NoActivity EXCEPT !.date = <<"2","0","2","4","0","1","0","5">>, !.time = <<"0","8","3","0","0","0">>,
                        !.description = <<"O","r","i","g","i","n"," ","S","c","a","n">>,
                        !.city = <<"N","e","w"," ","Y","o","r","k">>, !.country = <<"U","S">>],
     [NoActivity EXCEPT !.date = <<"n","/","a">>, !.city = <<"S","e","c","a","u","c","u","s">>] >>

\* what trackWithUPS gives: a throw (status 0: an Error without status, as the
\* OAuth failures raise), an answer without package, an answer whose package
\* has a currentStatus and an activity list
UpsResults ==
  { [k |-> "throw", status |-> 0], [k |-> "throw", status |-> 404],
    [k |-> "nopkg"],
    [k |-> "ok", currentStatus |-> [code |-> <<"d">>, description |-> NoText],
     activity |-> SomeActivity],
    [k |-> "ok",
     currentStatus |-> [code |-> NoText, description |-> <<"O","u","t"," ","F","o","r"," ","D","e","l","i","v","e","r","y"," ","T","o","d","a","y">>],
     activity |-> SomeActivity],
    [k |-> "ok",
     currentStatus |-> [code |-> <<"I">>, description |-> <<"I","n"," ","T","r","a","n","s","i","t">>],
     activity |-> SomeActivity],
    [k |-> "ok",
     currentStatus |-> [code |-> <<"M">>, description |-> <<"L","a","b","e","l"," ","C","r","e","a","t","e","d">>],
     activity |-> <<>>] }

NoScan ==
  [date |-> [k |-> "missing"], eventDescription |-> NoText,
   derivedStatus |-> NoText, city |-> NoText, stateOrProvinceCode |-> NoText,
   countryCode |-> NoText]

\* root.scanEvents of a FedEx answer
SomeScans ==
  << [NoScan EXCEPT !.date = [k |-> "garbage"], !.derivedStatus = <<"I","T">>],
     [NoScan EXCEPT !.date = [k |-> "iso", t |-> 20],
                    !.eventDescription = <<"D","e","l","i","v","e","r","e","d">>,
                    !.city = <<"A","u","s","t","i","n">>, !.stateOrProvinceCode = <<"T","X">>] >>

\* what trackWithFedex gives: a throw, an answer without track result, an
\* answer with a latestStatusDetail and scan events
FedexResults ==
  { [k |-> "throw", status |-> 0], [k |-> "throw", status |-> 503],
    [k |-> "noroot"],
    [k |-> "ok",
     latest |-> [description |-> <<"D","e","l","i","v","e","r","e","d">>, statusByLocale |-> NoText,
                 code |-> <<"D","L">>],
     scanEvents |-> SomeScans],
    [k |-> "ok",
     latest |-> [description |-> NoText, statusByLocale |-> <<"O","n"," ","i","t","s"," ","w","a","y">>,
                 code |-> <<"I","T">>],
     scanEvents |-> SomeScans],
    [k |-> "ok",
     latest |-> [description |-> NoText, statusByLocale |-> NoText,
                 code |-> <<"O","D">>],
     scanEvents |-> <<>>] }

NoCheckpoint ==
  [tag |-> NoText, message |-> NoText, checkpoint_time |-> [k |-> "missing"],
   city |-> NoText, state |-> NoText, country_name |-> NoText]

\* t.checkpoints of an AfterShip tracking
SomeCheckpoints ==
  << [NoCheckpoint EXCEPT !.tag = <<"I","n","T","r","a","n","s","i","t">>, !.message = <<"A","r","r","i","v","e","d">>,
                          !.checkpoint_time = [k |-> "iso", t |-> 21],
                          !.city = <<"R","e","n","o">>] >>

\* GET /trackings/:slug/:number of AfterShip: a throw (axios rejects a
\* non-2xx answer), an answer without tracking, an answer with a tracking
\* (tag, slug, checkpoints)
AftershipGets ==
  { [k |-> "throw"], [k |-> "notracking"],
    [k |-> "ok", tag |-> <<"D","e","l","i","v","e","r","e","d">>, slug |-> <<"u","s","p","s">>,
     checkpoints |-> SomeCheckpoints],
    [k |-> "ok", tag |-> <<"o","u","t","_","f","o","r","_","d","e","l","i","v","e","r","y">>, slug |-> NoText,
     checkpoints |-> SomeCheckpoints],
    [k |-> "ok", tag |-> <<"I","n","T","r","a","n","s","i","t">>, slug |-> <<"d","h","l","-","e","x","p","r","e","s","s">>,
     checkpoints |-> <<>>],
    [k |-> "ok", tag |-> NoText, slug |-> <<"c","a","n","a","d","a","-","p","o","s","t">>,
     checkpoints |-> <<>>] }

\* POST /trackings of AfterShip: the HTTP status, or 0 for a network error
AftershipCreates == { 201, 409, 400, 0 }

(* --------------------- PATCH /order/:id/tracking ----------------------- *)

\* the adapter the attachment handler takes
attachBranch(carrier, tn) ==
  LET carrierLc == toLowerCase(carrier) IN
  IF carrierLc = <<"u","p","s">> \/ isUpsPattern(tn) THEN "ups"
  ELSE IF carrierLc = <<"f","e","d","e","x">> THEN "fedex"
  ELSE "aftership"

\* the mock gate of the UPS branch in routes/orderRoutes/orderRoutes.js
usedMockOrderRoutes(e, tn, forceMockQuery) ==
  LET allowMock == toLowerCase(e.UPS_ALLOW_TEST_NUMBERS) = <<"t","r","u","e">>
      forceMock == trim(forceMockQuery) = <<"1">>
  IN  forceMock \/ (allowMock /\ isTestTrackingNumber(tn))

\* slugForGet of the AfterShip fallback
slugForGet(carrier) ==
  IF carrier # NoText THEN toLowerCase(carrier) ELSE <<"a","u","t","o">>

\* usedMock of the UPS branch
usedMock(e, tn, forceMockQuery) ==
  LET isProd == toLowerCase(Or(e.UPS_ENV, <<"c","i","e">>)) = <<"p","r","o","d">>
      allowMock == ~isProd /\ toLowerCase(e.UPS_ALLOW_TEST_NUMBERS) = <<"t","r","u","e">>
      forceMock == ~isProd /\ trim(forceMockQuery) = <<"1">>
  IN  forceMock \/ (allowMock /\ isTestTrackingNumber(tn))

RECURSIVE padDigits(_, _)
\* String(n).padStart(w, "0") for 0 <= n < 10^w
padDigits(n, w) ==
  IF w = 0 THEN <<>> ELSE padDigits(n \div 10, w - 1) \o <<DigitSeq[(n % 10) + 1]>>

\* formatYMD(d): the date of hour t as eight digits (the day number stands
\* for the calendar date)
formatYMD(t) == padDigits(t \div 24, 8)

\* buildMockUpsTracking(tn), built at hour t
buildMockUpsTracking(tn, t) ==
  [k |-> "ok",
   currentStatus |-> [code |-> <<"I">>, description |-> <<"I","n"," ","T","r","a","n","s","i","t">>],
   activity |->
     << [NoActivity EXCEPT !.date = formatYMD(t - 3 * 24), !.time = <<"0","8","3","0","0","0">>,
                           !.description = <<"O","r","i","g","i","n"," ","S","c","a","n">>, !.city = <<"N","e","w"," ","Y","o","r","k">>,
                           !.stateProvince = <<"N","Y">>, !.country = <<"U","S">>],
        [NoActivity EXCEPT !.date = formatYMD(t - 24), !.time = <<"1","0","4","5","0","0">>,
                           !.description = <<"D","e","p","a","r","t","e","d"," ","U","P","S"," ","F","a","c","i","l","i","t","y">>,
                           !.city = <<"S","e","c","a","u","c","u","s">>, !.stateProvince = <<"N","J">>,
                           !.country = <<"U","S">>],
        [NoActivity EXCEPT !.date = formatYMD(t), !.time = <<"0","7","1","5","0","0">>,
                           !.description = <<"I","n"," ","T","r","a","n","s","i","t">>,
                           !.city = <<"P","h","i","l","a","d","e","l","p","h","i","a">>, !.stateProvince = <<"P","A">>,
                           !.country = <<"U","S">>] >>]

\* nextPollAt as the attachment seeds it
seedNextPollAt(status, t) ==
  IF status = DELIVERED THEN Null ELSE computeNextPollAt(status, 0, t)

\* an attachment that leaves the attempt counter as it was
attachFieldsKeepAttempts(doc, tn, titleCarrier, status, events, deliveredAt, t) ==
  [doc EXCEPT
     !.trackingNumber = toUpperCase(trim(tn)),
     !.carrier = carrierSetter(titleCarrier),
     !.shipmentStatus = status,
     !.shippedAt = IF IsDate(@) THEN @ ELSE At(t),
     !.trackingEvents = events,
     !.verified = @ \/ Len(events) > 0,
     !.deliveredAt = IF status = DELIVERED /\ ~IsDate(@) THEN deliveredAt ELSE @,
     !.lastPolledAt = Null,
     !.nextPollAt = seedNextPollAt(status, t)]

\* an attachment that stamps deliveredAt whenever the carrier says delivered
attachFieldsRedeliver(doc, tn, titleCarrier, status, events, deliveredAt, t) ==
  [doc EXCEPT
     !.trackingNumber = toUpperCase(trim(tn)),
     !.carrier = carrierSetter(titleCarrier),
     !.shipmentStatus = status,
     !.shippedAt = IF IsDate(@) THEN @ ELSE At(t),
     !.trackingEvents = events,
     !.verified = @ \/ Len(events) > 0,
     !.deliveredAt = IF status = DELIVERED THEN deliveredAt ELSE @,
     !.pollAttempts = 0,
     !.lastPolledAt = Null,
     !.nextPollAt = seedNextPollAt(status, t)]

\* an attachment that stamps shippedAt on every call
attachFieldsRestamp(doc, tn, titleCarrier, status, events, deliveredAt, t) ==
  [doc EXCEPT
     !.trackingNumber = toUpperCase(trim(tn)),
     !.carrier = carrierSetter(titleCarrier),
     !.shipmentStatus = status,
     !.shippedAt = At(t),
     !.trackingEvents = events,
     !.verified = @ \/ Len(events) > 0,
     !.deliveredAt = IF status = DELIVERED /\ ~IsDate(@) THEN deliveredAt ELSE @,
     !.pollAttempts = 0,
     !.lastPolledAt = Null,
     !.nextPollAt = seedNextPollAt(status, t)]

\* the shipping fields the attachment handler assigns, at hour t
attachFields(doc, tn, titleCarrier, status, events, deliveredAt, t) ==
  [doc EXCEPT
     !.trackingNumber = toUpperCase(trim(tn)),
     !.carrier = carrierSetter(titleCarrier),
     !.shipmentStatus = status,
     !.shippedAt = IF IsDate(@) THEN @ ELSE At(t),
     !.trackingEvents = events,
     !.verified = @ \/ Len(events) > 0,
     !.deliveredAt = IF status = DELIVERED /\ ~IsDate(@) THEN deliveredAt ELSE @,
     !.pollAttempts = 0,
     !.lastPolledAt = Null,
     !.nextPollAt = seedNextPollAt(status, t)]

\* the shipping fields the attachment handler of
\* routes/orderRoutes/orderRoutes.js assigns: no polling fields
attachFieldsOrderRoutes(doc, tn, titleCarrier, status, events, deliveredAt, t) ==
  [doc EXCEPT
     !.trackingNumber = toUpperCase(trim(tn)),
     !.carrier = carrierSetter(titleCarrier),
     !.shipmentStatus = status,
     !.shippedAt = IF IsDate(@) THEN @ ELSE At(t),
     !.trackingEvents = events,
     !.verified = @ \/ Len(events) > 0,
     !.deliveredAt = IF status = DELIVERED /\ ~IsDate(@) THEN deliveredAt ELSE @]

\* deliveredAt of the FedEx branches: the date of the first scan whose
\* description says delivered, else the current time
fedexDeliveredAt(scans, t) ==
  LET hits == {i \in 1..Len(scans) :
                 includes(toLowerCase(scans[i].eventDescription), <<"d","e","l","i","v","e","r","e","d">>)}
      first == CHOOSE i \in hits : \A j \in hits : i <= j
  IN  IF hits # {} /\ IsDate(parseFedexDate(scans[first].date))
        THEN parseFedexDate(scans[first].date)
        ELSE At(t)

\* the record of one step of the request in flight (code 0: no response yet)
\* req: the request as received, on the step that takes it; key: on a
\* successful save, the tracking number, the carrier and the carrier answer
\* that were saved; repeat: the request before this one saved the same key to
\* the same order; at: the hour of a successful save
NoKey == [k |-> "none"]

AttachStep(step, id, code, notifs, call, req, key, repeat) ==
  [op |-> "attach", step |-> step, id |-> id, code |-> code,
   notifs |-> NotificationCreate(notifs), call |-> call, req |-> req, key |-> key,
   repeat |-> repeat, at |-> IF code = 200 THEN now ELSE 0]

\* validation, lookup and the seller check
AttachBegin(id, trackingNumber, carrier, caller, forceMock) ==
  /\ att.pc = "idle"
  /\ LET tn == toUpperCase(trim(trackingNumber))
         req == [trackingNumber |-> trackingNumber, caller |-> caller]
         reject(code) ==
           /\ att' = att
           /\ last' = AttachStep("begin", id, code, <<>>, "none", req, NoKey, FALSE)
     IN
     IF trim(trackingNumber) = NoText THEN reject(400)
     ELSE IF id \notin OrderIds THEN reject(404)
     ELSE IF orders[id].artistUserId # caller THEN reject(403)
     ELSE /\ att' = [pc |-> "fetch", id |-> id, tn |-> tn, carrier |-> carrier,
                     forceMock |-> forceMock,
                     branch |-> attachBranch(carrier, tn),
                     loaded |-> orders[id], doc |-> orders[id],
                     result |-> NoKey,
                     prev |-> IF last.op = "attach" /\ last.step = "save"
                                 /\ last.code = 200 /\ last.id = id
                              THEN last.key ELSE NoKey]
          /\ last' = AttachStep("begin", id, 0, <<>>, "none", req, NoKey, FALSE)
  /\ UNCHANGED <<tok, now, env, orders, poll>>

\* the step ends the request with a response and without a save
AttachFail(code, call) ==
  /\ att' = IdleAtt
  /\ last' = AttachStep("fetch", att.id, code, <<>>, call, NoKey, NoKey, FALSE)

\* the carrier answered: the fields are assigned to the loaded document, the
\* notifications issued before the save go out, the save is awaited
AttachFetched(doc, notifs, call, result) ==
  /\ att' = [att EXCEPT !.pc = "save", !.doc = doc, !.result = result]
  /\ last' = AttachStep("fetch", att.id, 0, notifs, call, NoKey, NoKey, FALSE)

\* the delivered notification the UPS and FedEx branches issue before the save
preSaveNotifs(status) ==
  IF status = DELIVERED THEN <<ORDER_DELIVERED>> ELSE <<>>

\* e.status || 400 of the UPS and FedEx branches
catchCode(status) == IF status # 0 THEN status ELSE 400

\* a UPS branch that stores the tracking number before it asks the carrier
AttachFetchUpsWriteFirst(r) ==
  /\ att.pc = "fetch" /\ att.branch = "ups"
  /\ orders' = [orders EXCEPT ![att.id].trackingNumber = att.tn,
                              ![att.id].carrier = <<"U","P","S">>]
  /\ LET mock == usedMock(env, att.tn, att.forceMock)
         data == IF mock THEN buildMockUpsTracking(att.tn, now) ELSE r
         call == IF mock THEN "none" ELSE "ups"
     IN
     IF data.k = "throw" THEN AttachFail(catchCode(data.status), call)
     ELSE IF data.k = "nopkg" THEN AttachFail(400, call)
     ELSE LET status == mapUpsStatus(data.currentStatus)
              events == validEvents(MapSeq(data.activity, upsEventAttach))
          IN  AttachFetched(
                attachFields(att.doc, att.tn, <<"U","P","S">>, status, events, At(now), now),
                preSaveNotifs(status), call, data)
  /\ UNCHANGED <<tok, now, env, poll>>

\* UPS branch: mock or trackWithUPS, then the assignments
AttachFetchUps(r) ==
  /\ att.pc = "fetch" /\ att.branch = "ups"
  /\ LET mock == usedMock(env, att.tn, att.forceMock)
         data == IF mock THEN buildMockUpsTracking(att.tn, now) ELSE r
         call == IF mock THEN "none" ELSE "ups"
     IN
     IF data.k = "throw" THEN AttachFail(catchCode(data.status), call)
     ELSE IF data.k = "nopkg" THEN AttachFail(400, call)
     ELSE LET status == mapUpsStatus(data.currentStatus)
              events == validEvents(MapSeq(data.activity, upsEventAttach))
          IN  AttachFetched(
                attachFields(att.doc, att.tn, <<"U","P","S">>, status, events, At(now), now),
                preSaveNotifs(status), call, data)
  /\ UNCHANGED <<tok, now, env, orders, poll>>

\* FedEx branch: trackWithFedex, then the assignments
AttachFetchFedex(r) ==
  /\ att.pc = "fetch" /\ att.branch = "fedex"
  /\ IF r.k = "throw" THEN AttachFail(catchCode(r.status), "fedex")
     ELSE IF r.k = "noroot" THEN AttachFail(400, "fedex")
     ELSE LET status == mapFedexStatus(r.latest)
              events == validEvents(
                MapSeq(r.scanEvents, LAMBDA ev : fedexEvent(ev, r.latest)))
          IN  AttachFetched(
                attachFields(att.doc, att.tn, <<"F","e","d","E","x">>, status, events,
                             fedexDeliveredAt(r.scanEvents, now), now),
                preSaveNotifs(status), "fedex", r)
  /\ UNCHANGED <<tok, now, env, orders, poll>>

\* AfterShip fallback: create the tracking (409 = exists already), fetch
\* it, then the assignments
AttachFetchAftership(created, fetched) ==
  /\ att.pc = "fetch" /\ att.branch = "aftership"
  /\ IF created = 0 THEN AttachFail(400, "aftership")
     ELSE IF created # 409 /\ created >= 400 THEN AttachFail(400, "aftership")
     ELSE IF fetched.k = "throw" THEN AttachFail(500, "aftership")
     ELSE IF fetched.k = "notracking" THEN AttachFail(400, "aftership")
     ELSE LET status == mapStatus(fetched.tag)
              titleCarrier == toTitleCaseCarrier(Or(fetched.slug, att.carrier))
              events == MapSeq(fetched.checkpoints, aftershipEvent)
          IN  AttachFetched(
                attachFields(att.doc, att.tn, titleCarrier, status, events,
                             At(now), now),
                <<>>, "aftership", fetched)
  /\ UNCHANGED <<tok, now, env, orders, poll>>

\* the notifications issued after the save
postSaveNotifs(branch, status) ==
  IF branch = "aftership" /\ status = DELIVERED
    THEN <<ORDER_SHIPPED, ORDER_DELIVERED>>
    ELSE <<ORDER_SHIPPED>>

\* the status answered when order.save() rejects: the UPS and FedEx branches
\* catch it themselves (e.status || 400), the fallback leaves it to the
\* handler's outer catch
saveFailCode(branch) == IF branch = "aftership" THEN 500 ELSE 400

\* await order.save(), the notifications after it, the response
AttachSave(dbOk) ==
  /\ att.pc = "save"
  /\ LET requestKey == [tn |-> att.tn, carrier |-> att.carrier,
                        result |-> att.result]
     IN
     IF dbOk /\ validates(att.doc)
       THEN /\ orders' = [orders EXCEPT
                            ![att.id] = save(orders[att.id], att.loaded, att.doc)]
            /\ last' = AttachStep("save", att.id, 200,
                         postSaveNotifs(att.branch, att.doc.shipmentStatus),
                         "none", NoKey, requestKey, att.prev = requestKey)
       ELSE /\ orders' = orders
            /\ last' = AttachStep("save", att.id, saveFailCode(att.branch),
                         <<>>, "none", NoKey, NoKey, FALSE)
  /\ att' = IdleAtt
  /\ UNCHANGED <<tok, now, env, poll>>

(* ------- PATCH /order/:id/tracking of routes/orderRoutes/orderRoutes.js ------- *)

\* UPS branch of orderRoutes.js: its own mock gate, no polling fields
RoutesFetchUps(r) ==
  /\ att.pc = "fetch" /\ att.branch = "ups"
  /\ LET mock == usedMockOrderRoutes(env, att.tn, att.forceMock)
         data == IF mock THEN buildMockUpsTracking(att.tn, now) ELSE r
         call == IF mock THEN "none" ELSE "ups"
     IN
     IF data.k = "throw" THEN AttachFail(catchCode(data.status), call)
     ELSE IF data.k = "nopkg" THEN AttachFail(400, call)
     ELSE LET status == mapUpsStatus(data.currentStatus)
              events == validEvents(MapSeq(data.activity, upsEventAttach))
          IN  AttachFetched(
                attachFieldsOrderRoutes(att.doc, att.tn, <<"U","P","S">>, status, events,
                                        At(now), now),
                preSaveNotifs(status), call, data)
  /\ UNCHANGED <<tok, now, env, orders, poll>>

\* every other request of orderRoutes.js, FedEx included, goes to AfterShip
RoutesFetchAftership(created, fetched) ==
  /\ att.pc = "fetch" /\ att.branch # "ups"
  /\ IF created = 0 THEN AttachFail(400, "aftership")
     ELSE IF created # 409 /\ created >= 400 THEN AttachFail(400, "aftership")
     ELSE IF fetched.k = "throw" THEN AttachFail(500, "aftership")
     ELSE IF fetched.k = "notracking" THEN AttachFail(400, "aftership")
     ELSE LET status == mapStatus(fetched.tag)
              titleCarrier == toTitleCaseCarrier(Or(fetched.slug, att.carrier))
              events == MapSeq(fetched.checkpoints, aftershipEvent)
          IN  AttachFetched(
                attachFieldsOrderRoutes(att.doc, att.tn, titleCarrier, status, events,
                                        At(now), now),
                <<>>, "aftership", fetched)
  /\ UNCHANGED <<tok, now, env, orders, poll>>

\* await order.save(); the UPS branch then notifies the buyer, the fallback
\* answers without a notification
RoutesSave(dbOk) ==
  /\ att.pc = "save"
  /\ LET requestKey == [tn |-> att.tn, carrier |-> att.carrier,
                        result |-> att.result]
     IN
     IF dbOk /\ validates(att.doc)
       THEN /\ orders' = [orders EXCEPT
                            ![att.id] = save(orders[att.id], att.loaded, att.doc)]
            /\ last' = AttachStep("save", att.id, 200,
                         IF att.branch = "ups" THEN <<ORDER_SHIPPED>> ELSE <<>>,
                         "none", NoKey, requestKey, att.prev = requestKey)
       ELSE /\ orders' = orders
            /\ last' = AttachStep("save", att.id,
                         IF att.branch = "ups" THEN 400 ELSE 500,
                         <<>>, "none", NoKey, NoKey, FALSE)
  /\ att' = IdleAtt
  /\ UNCHANGED <<tok, now, env, poll>>

(* --------------------- /orders/shipments/poll-due ---------------------- *)

\* pollDueGuard: next() is called
guardPasses(required, headerSecret, querySecret) ==
  ~(required # NoText /\ headerSecret # required /\ querySecret # required)

\* a selection that takes a stored null for a missing nextPollAt
isDueOrNull(doc, t) ==
  /\ doc.trackingNumber # NoText
  /\ doc.shipmentStatus # DELIVERED
  /\ ~IsDate(doc.nextPollAt) \/ doc.nextPollAt.t <= t

\* the selection query of pollDueHandler, at hour t
isDue(doc, t) ==
  /\ doc.trackingNumber # NoText
  /\ doc.shipmentStatus # DELIVERED
  /\ \/ IsDate(doc.nextPollAt) /\ doc.nextPollAt.t <= t
     \/ doc.nextPollAt = Absent

\* .sort({"shipping.nextPollAt": 1}): a missing value sorts before every date
sortsBefore(a, b) == ~IsDate(a.nextPollAt) \/ (IsDate(b.nextPollAt) /\ a.nextPollAt.t <= b.nextPollAt.t)

RECURSIVE anyOrder(_)
\* the orders of ids one after the other, in every order
anyOrder(ids) ==
  IF ids = {} THEN {<<>>}
  ELSE UNION { {<<m>> \o s : s \in anyOrder(ids \ {m})} : m \in ids }

RECURSIVE sortedOrders(_)
\* the orders of ids in ascending nextPollAt order, ties in any order: the
\* ids before a middle one, then it and its ties, then the ids after it
sortedOrders(ids) ==
  IF ids = {} THEN {<<>>}
  ELSE LET before(x) == {y \in ids : ~sortsBefore(orders[x], orders[y])}
           after(x) == {y \in ids : ~sortsBefore(orders[y], orders[x])}
           middle == CHOOSE x \in ids :
                       /\ 2 * Cardinality(before(x)) <= Cardinality(ids)
                       /\ 2 * Cardinality(after(x)) <= Cardinality(ids)
       IN  UNION { { a \o e \o b : a \in sortedOrders(lo),
                                   e \in anyOrder(all \ (lo \cup hi)),
                                   b \in sortedOrders(hi) } :
                   all \in {ids}, lo \in {before(m) : m \in {middle}},
                   hi \in {after(m) : m \in {middle}} }

\* a selection without .limit(50)
dueBatchesUncapped(t) ==
  sortedOrders({id \in DOMAIN orders : isDue(orders[id], t)})

\* the answers find().sort().limit(50) can give at hour t: the due orders in
\* ascending nextPollAt order (ties in any order), cut at the batch size
dueBatches(t) ==
  LET sorted == sortedOrders({id \in DOMAIN orders : isDue(orders[id], t)})
  IN  {SubSeq(s, 1, Min(Len(s), BATCH_LIMIT)) : s \in sorted}

\* a dispatch that looks at the tracking number only
pollBranchByPattern(doc) ==
  IF isUpsPattern(doc.trackingNumber) THEN "ups" ELSE "aftership"

\* the adapter pollDueHandler takes for a stored order
pollBranch(doc) ==
  LET carrierName == toLowerCase(doc.carrier) IN
  IF carrierName = <<"u","p","s">> \/ isUpsPattern(doc.trackingNumber) THEN "ups"
  ELSE IF carrierName = <<"f","e","d","e","x">> THEN "fedex"
  ELSE "aftership"

\* a ceiling test that stops one poll late
shouldStopOffByOne(newStatus, pollAttempts) ==
  newStatus = DELIVERED \/ pollAttempts > MAX_ATTEMPTS

\* shouldStop of pollDueHandler
shouldStop(newStatus, pollAttempts) ==
  newStatus = DELIVERED \/ pollAttempts >= MAX_ATTEMPTS

\* the fields pollDueHandler assigns to a due order, at hour t
pollFields(doc, newStatus, newEvents, deliveredAt, t) ==
  [doc EXCEPT
     !.deliveredAt = IF newStatus = DELIVERED /\ ~IsDate(@) THEN deliveredAt ELSE @,
     !.trackingEvents = newEvents,
     !.shipmentStatus = newStatus,
     !.lastPolledAt = At(t),
     !.pollAttempts = @ + 1,
     !.nextPollAt = IF shouldStop(newStatus, doc.pollAttempts + 1) THEN Null
                    ELSE computeNextPollAt(newStatus, doc.pollAttempts + 1, t)]

\* the notifications pollDueHandler issues for a status change
pollNotifs(prevStatus, newStatus) ==
  IF prevStatus # newStatus /\ newStatus = OUT_FOR_DELIVERY
    THEN <<ORDER_OUT_FOR_DELIVERY>>
  ELSE IF prevStatus # newStatus /\ newStatus = DELIVERED
    THEN <<ORDER_DELIVERED>>
  ELSE <<>>

\* the record of one step of an invocation
PollStep(p, step, id, code, outcome, notifs, call, from, to, due, results) ==
  [op |-> "poll", step |-> step, p |-> p, id |-> id, code |-> code,
   outcome |-> outcome, notifs |-> NotificationCreate(notifs), call |-> call,
   req |-> NoKey,
   from |-> from, to |-> to,
   due |-> IF code = 200 THEN due ELSE <<>>,
   processed |-> IF code = 200 THEN Len(due) ELSE 0,
   results |-> IF code = 200 THEN results ELSE <<>>]

\* the guard, then the selection query; an empty batch is answered at once
PollBegin(p, headerSecret, querySecret) ==
  /\ poll[p].pc = "idle"
  /\ LET req == [headerSecret |-> headerSecret, querySecret |-> querySecret] IN
     IF ~guardPasses(env.CRON_SECRET, headerSecret, querySecret)
       THEN /\ poll' = poll
            /\ last' = [PollStep(p, "begin", "none", 403, "forbidden", <<>>,
                                 "none", "none", "none", <<>>, <<>>)
                          EXCEPT !.req = req]
       ELSE \E due \in dueBatches(now) :
              IF due = <<>>
                THEN /\ poll' = poll
                     /\ last' = [PollStep(p, "begin", "none", 200, "done", <<>>,
                                          "none", "none", "none", due, <<>>)
                                   EXCEPT !.req = req]
                ELSE /\ poll' = [poll EXCEPT ![p] =
                           [pc |-> "fetch", due |-> due,
                            docs |-> [i \in 1..Len(due) |-> orders[due[i]]],
                            i |-> 1, cur |-> orders[due[1]], results |-> <<>>]]
                     /\ last' = [PollStep(p, "begin", "none", 0, "selected", <<>>,
                                          "none", "none", "none", due, <<>>)
                                   EXCEPT !.req = req]
  /\ UNCHANGED <<tok, now, env, orders, att>>

\* the loop goes to the next record, or the response is sent after the last
PollAdvance(p, step, outcome, notifs, call, from, to, entry) ==
  LET q == poll[p]
      results == Append(q.results, entry)
      done == q.i = Len(q.due)
  IN  /\ poll' = [poll EXCEPT ![p] =
                    IF done THEN IdlePoll
                    ELSE [q EXCEPT !.pc = "fetch", !.i = @ + 1,
                                   !.cur = q.docs[q.i + 1],
                                   !.results = results]]
      /\ last' = PollStep(p, step, q.due[q.i], IF done THEN 200 ELSE 0,
                          outcome, notifs, call, from, to, q.due, results)

ErrorEntry(id) == [orderId |-> id, error |-> TRUE]

\* a failed carrier call that ends the whole batch with what it has so far
PollFetchFailAborts(p, call) ==
  LET q == poll[p]
      results == Append(q.results, ErrorEntry(q.due[q.i]))
  IN  /\ poll' = [poll EXCEPT ![p] = IdlePoll]
      /\ last' = PollStep(p, "fetch", q.due[q.i], 200, "error", <<>>, call,
                          q.docs[q.i].shipmentStatus, "none", q.due, results)

\* a record whose carrier call failed: the catch pushes an error entry
PollFetchFail(p, call) ==
  LET q == poll[p] IN
  PollAdvance(p, "fetch", "error", <<>>, call,
              q.docs[q.i].shipmentStatus, "none", ErrorEntry(q.due[q.i]))

\* a record whose carrier call answered: the fields are assigned to the
\* loaded document, the notifications go out, the save is awaited
PollFetched(p, call, newStatus, newEvents, deliveredAt) ==
  LET q == poll[p]
      doc == q.docs[q.i]
  IN  /\ poll' = [poll EXCEPT ![p] =
                    [q EXCEPT !.pc = "save",
                              !.cur = pollFields(doc, newStatus, newEvents,
                                                 deliveredAt, now)]]
      /\ last' = PollStep(p, "fetch", q.due[q.i], 0, "fetched",
                          pollNotifs(doc.shipmentStatus, newStatus), call,
                          doc.shipmentStatus, newStatus, q.due, q.results)

\* what the adapter of a branch can give
adapterResults(branch) ==
  IF branch = "ups" THEN UpsResults
  ELSE IF branch = "fedex" THEN FedexResults
  ELSE AftershipGets

\* one record of the batch: the carrier call of its adapter
PollFetch(p, r) ==
  /\ poll[p].pc = "fetch"
  /\ LET doc == poll[p].docs[poll[p].i]
         branch == pollBranch(doc)
     IN
     /\ r \in adapterResults(branch)
     /\ IF r.k # "ok" THEN PollFetchFail(p, branch)
        ELSE IF branch = "ups" THEN
          PollFetched(p, branch, mapUpsStatus(r.currentStatus),
            validEvents(MapSeq(r.activity, upsEventPoll)), At(now))
        ELSE IF branch = "fedex" THEN
          PollFetched(p, branch, mapFedexStatus(r.latest),
            validEvents(MapSeq(r.scanEvents, LAMBDA ev : fedexEvent(ev, r.latest))),
            fedexDeliveredAt(r.scanEvents, now))
        ELSE
          PollFetched(p, branch, mapStatus(r.tag),
            MapSeq(r.checkpoints, aftershipEvent), At(now))
  /\ UNCHANGED <<tok, now, env, orders, att>>

\* a save whose failure leaves the assigned fields written
PollSaveNoRollback(p, dbOk) ==
  /\ poll[p].pc = "save"
  /\ LET q == poll[p]
         id == q.due[q.i]
         loaded == q.docs[q.i]
     IN
     /\ orders' = [orders EXCEPT ![id] = save(orders[id], loaded, q.cur)]
     /\ IF dbOk /\ validates(q.cur)
          THEN PollAdvance(p, "save", "ok", <<>>, "none", loaded.shipmentStatus,
                 q.cur.shipmentStatus,
                 [orderId |-> id, from |-> loaded.shipmentStatus,
                  to |-> q.cur.shipmentStatus, attempts |-> q.cur.pollAttempts,
                  nextPollAt |-> q.cur.nextPollAt])
          ELSE PollAdvance(p, "save", "error", <<>>, "none",
                 loaded.shipmentStatus, q.cur.shipmentStatus, ErrorEntry(id))
  /\ UNCHANGED <<tok, now, env, att>>

\* await order.save() of the record, then its result entry
PollSave(p, dbOk) ==
  /\ poll[p].pc = "save"
  /\ LET q == poll[p]
         id == q.due[q.i]
         loaded == q.docs[q.i]
     IN
     IF dbOk /\ validates(q.cur)
       THEN /\ orders' = [orders EXCEPT ![id] = save(orders[id], loaded, q.cur)]
            /\ PollAdvance(p, "save", "ok", <<>>, "none", loaded.shipmentStatus,
                 q.cur.shipmentStatus,
                 [orderId |-> id, from |-> loaded.shipmentStatus,
                  to |-> q.cur.shipmentStatus, attempts |-> q.cur.pollAttempts,
                  nextPollAt |-> q.cur.nextPollAt])
       ELSE /\ orders' = orders
            /\ PollAdvance(p, "save", "error", <<>>, "none",
                 loaded.shipmentStatus, q.cur.shipmentStatus, ErrorEntry(id))
  /\ UNCHANGED <<tok, now, env, att>>

(* ------------------------- the state machine --------------------------- *)

\* the configurations of process.env the service runs under
Environments ==
  { [UPS_ENV |-> NoText, UPS_ALLOW_TEST_NUMBERS |-> <<"T","R","U","E">>, CRON_SECRET |-> <<"s","3">>],
    [UPS_ENV |-> <<"P","R","O","D">>, UPS_ALLOW_TEST_NUMBERS |-> <<"t","r","u","e">>, CRON_SECRET |-> <<"s","3">>],
    [UPS_ENV |-> <<"c","i","e">>, UPS_ALLOW_TEST_NUMBERS |-> NoText, CRON_SECRET |-> NoText] }

\* x-cron-secret and ?secret= of a poll-due request
SecretInputs == { NoText, <<"s","3">>, <<"S","3">> }

\* ?forceMock= of an attachment request
ForceMockInputs == { NoText, <<" ","1">> }

\* an order whose UPS tracking was attached at hour 0 and polled `attempts`
\* times since, the last time at hour StartTime - 24, still in transit
PolledOrder(attempts) ==
  [NewOrder EXCEPT
     !.trackingNumber = <<"1","Z","1","2","3","4","5","E","0","2","9","1","9","8","0","7","9","3">>,
     !.carrier = <<"U","P","S">>,
     !.shipmentStatus = IN_TRANSIT,
     !.shippedAt = At(0),
     !.pollAttempts = attempts,
     !.lastPolledAt = At(StartTime - 24),
     !.nextPollAt = computeNextPollAt(IN_TRANSIT, attempts, StartTime - 24)]

\* an order whose FedEx tracking was attached twelve hours ago with no scan
\* yet, and one whose USPS tracking was attached through AfterShip two hours
\* ago, out for delivery: both never polled and due now
AttachedFedexOrder ==
  attachFields(NewOrder, <<"9","4","0","0","1","X">>, <<"F","e","d","E","x">>, SHIPPED, <<>>, Absent,
               StartTime - 12)
AttachedUspsOrder ==
  attachFields(NewOrder, <<"9","4","0","0","1","X">>, <<"U","S","P","S">>, OUT_FOR_DELIVERY,
               MapSeq(SomeCheckpoints, aftershipEvent), Absent, StartTime - 2)

StartStep ==
  [op |-> "init", step |-> "none", id |-> "none", code |-> 0,
   notifs |-> <<>>, call |-> "none"]

\* no request is in flight
Quiet == att.pc = "idle" /\ \A p \in Pollers : poll[p].pc = "idle"

\* an hour passes between two requests (a handler takes less than an hour)
Tick ==
  /\ Quiet
  /\ now < StartTime + MaxTicks
  /\ now' = now + 1
  /\ UNCHANGED <<tok, env, orders, att, poll, last>>

\* the orders that attachment requests name
AttachIds == {"o1", NoSuchOrder}

AttachRequest ==
  /\ Quiet
  /\ \E id \in AttachIds, tn \in TrackingNumberInputs,
        c \in CarrierInputs, u \in Users, f \in ForceMockInputs :
       AttachBegin(id, tn, c, u, f)
AttachCarrierUps == \E r \in UpsResults : AttachFetchUps(r)
AttachCarrierFedex == \E r \in FedexResults : AttachFetchFedex(r)
AttachCarrierAftership ==
  \E c \in AftershipCreates, g \in AftershipGets : AttachFetchAftership(c, g)
AttachPersist == \E dbOk \in BOOLEAN : AttachSave(dbOk)

PollRequest ==
  /\ Quiet
  /\ \E h \in SecretInputs, q \in SecretInputs : PollBegin("p1", h, q)
PollCarrier ==
  \E r \in UpsResults \cup FedexResults \cup AftershipGets : PollFetch("p1", r)
PollPersist == \E dbOk \in BOOLEAN : PollSave("p1", dbOk)

(* Attachment requests, one at a time, against an order that is new or has  *)
(* been polled almost to the attempt ceiling.                               *)
InitAttach ==
  /\ now = StartTime
  /\ tok = NoTokens
  /\ env \in {e \in Environments : e.UPS_ENV = NoText}
  /\ orders \in [OrderIds -> {NewOrder, PolledOrder(MAX_ATTEMPTS - 2)}]
  /\ orders["o2"] = NewOrder
  /\ att = IdleAtt
  /\ poll = [p \in Pollers |-> IdlePoll]
  /\ last = StartStep

NextAttach ==
  \/ Tick
  \/ AttachRequest
  \/ AttachCarrierUps
  \/ AttachCarrierFedex
  \/ AttachCarrierAftership
  \/ AttachPersist

SpecAttach == InitAttach /\ [][NextAttach]_vars

(* The scheduler at work: it calls poll-due again and again with the       *)
(* secret, every started invocation runs to its end, and time passes until *)
(* the next order falls due. The carrier and the database answer as they   *)
(* like.                                                                   *)
InitFair ==
  /\ now = StartTime
  /\ tok = NoTokens
  /\ env = CHOOSE e \in Environments : e.UPS_ENV = NoText
  /\ orders \in [OrderIds -> {NewOrder, PolledOrder(MAX_ATTEMPTS - 1),
                              PolledOrder(MAX_ATTEMPTS - 2)}]
  /\ orders["o1"] = PolledOrder(MAX_ATTEMPTS - 2)
  /\ att = IdleAtt
  /\ poll = [p \in Pollers |-> IdlePoll]
  /\ last = StartStep

FairRequest == Quiet /\ PollBegin("p1", env.CRON_SECRET, NoText)

\* nothing is due: the clock moves on to the hour the next order falls due
FairTick ==
  /\ Quiet
  /\ dueBatches(now) = {<<>>}
  /\ LET waiting == {orders[id].nextPollAt.t :
                       id \in {x \in DOMAIN orders : IsDate(orders[x].nextPollAt)}}
     IN  /\ waiting # {}
         /\ now' = CHOOSE t \in waiting : \A u \in waiting : t <= u
  /\ UNCHANGED <<tok, env, orders, att, poll, last>>

NextFair == FairRequest \/ FairTick \/ PollCarrier \/ PollPersist

SpecFair ==
  /\ InitFair /\ [][NextFair]_vars
  /\ WF_vars(FairRequest) /\ WF_vars(FairTick)
  /\ WF_vars(PollCarrier) /\ WF_vars(PollPersist)

(* Attachments and reconciliation invocations on the same order: one at a  *)
(* time in SpecSeq, in flight together in SpecRace.                        *)
InitSeq ==
  /\ now = StartTime
  /\ tok = NoTokens
  /\ env = CHOOSE e \in Environments : e.UPS_ENV = NoText
  /\ orders \in [OrderIds -> {NewOrder, AttachedFedexOrder, AttachedUspsOrder,
                              PolledOrder(MAX_ATTEMPTS - 1)}]
  /\ orders["o1"] # NewOrder /\ orders["o2"] = NewOrder
  /\ att = IdleAtt
  /\ poll = [p \in Pollers |-> IdlePoll]
  /\ last = StartStep

\* the seller attaches a UPS or a FedEx number to the order
SeqAttachRequest ==
  /\ Quiet
  /\ \E tn \in {<<"1","Z","1","2","3","4","5","E","0","2","9","1","9","8","0","7","9","3">>, <<"9","4","0","0","1","X">>}, c \in {NoText, <<"F","e","d","E","x">>} :
       AttachBegin("o1", tn, c, "seller", NoText)

SeqPollRequest == Quiet /\ PollBegin("p1", env.CRON_SECRET, NoText)

NextSeq ==
  \/ Tick
  \/ SeqAttachRequest
  \/ AttachCarrierUps
  \/ AttachCarrierFedex
  \/ AttachCarrierAftership
  \/ AttachPersist
  \/ SeqPollRequest
  \/ PollCarrier
  \/ PollPersist

SpecSeq == InitSeq /\ [][NextSeq]_vars

(* Attachments whose adapter is compared with the one the scheduler takes  *)
(* afterwards: AfterShip may name any carrier in its slug, UPS and FedEx    *)
(* included.                                                                *)
AftershipSlugGets ==
  AftershipGets \cup
    { [k |-> "ok", tag |-> <<"I","n","T","r","a","n","s","i","t">>, slug |-> s, checkpoints |-> <<>>] :
        s \in {<<"f","e","d","e","x">>, <<"u","p","s">>} }

AdapterRequest ==
  /\ Quiet
  /\ \E tn \in {<<"1","Z","1","2","3","4","5","E","0","2","9","1","9","8","0","7","9","3">>, <<"9","4","0","0","1","x">>}, c \in CarrierInputs,
        f \in ForceMockInputs :
       AttachBegin("o1", tn, c, "seller", f)
AdapterCarrierAftership ==
  \E g \in AftershipSlugGets : AttachFetchAftership(201, g)

NextAdapter ==
  \/ AdapterRequest
  \/ AttachCarrierUps
  \/ AttachCarrierFedex
  \/ AdapterCarrierAftership
  \/ AttachPersist

SpecAdapter == InitAttach /\ [][NextAdapter]_vars

(* Attachment requests to the handler of orderRoutes.js, one at a time,    *)
(* against new orders.                                                      *)
InitRoutes ==
  /\ now = StartTime
  /\ tok = NoTokens
  /\ env \in {e \in Environments : e.UPS_ENV = NoText}
  /\ orders = [id \in OrderIds |-> NewOrder]
  /\ att = IdleAtt
  /\ poll = [p \in Pollers |-> IdlePoll]
  /\ last = StartStep

RoutesCarrierUps == \E r \in UpsResults : RoutesFetchUps(r)
RoutesCarrierAftership ==
  \E c \in AftershipCreates, g \in AftershipGets : RoutesFetchAftership(c, g)
RoutesPersist == \E dbOk \in BOOLEAN : RoutesSave(dbOk)

NextRoutes ==
  \/ AttachRequest
  \/ RoutesCarrierUps
  \/ RoutesCarrierAftership
  \/ RoutesPersist

SpecRoutes == InitRoutes /\ [][NextRoutes]_vars

(* Reconciliation invocations, one at a time, over orders that are new,     *)
(* freshly attached and due, or one or two polls short of the ceiling.      *)
InitPoll ==
  /\ now = StartTime
  /\ tok = NoTokens
  /\ env \in Environments
  /\ orders \in [OrderIds ->
       { NewOrder, PolledOrder(MAX_ATTEMPTS - 2), PolledOrder(MAX_ATTEMPTS - 1),
         AttachedFedexOrder, AttachedUspsOrder }]
  /\ att = IdleAtt
  /\ poll = [p \in Pollers |-> IdlePoll]
  /\ last = StartStep

NextPoll ==
  \/ Tick
  \/ PollRequest
  \/ PollCarrier
  \/ PollPersist

SpecPoll == InitPoll /\ [][NextPoll]_vars

\* the order polled `attempts` times, the last time at hour t
PolledAt(attempts, t) ==
  [PolledOrder(attempts) EXCEPT
     !.lastPolledAt = At(t),
     !.nextPollAt = computeNextPollAt(IN_TRANSIT, attempts, t)]

\* an order found delivered by its fourth poll, and one given up at the ceiling
DeliveredOrder ==
  pollFields(PolledOrder(3), DELIVERED, <<>>, At(StartTime - 24), StartTime - 24)
AbandonedOrder ==
  pollFields(PolledOrder(MAX_ATTEMPTS - 1), IN_TRANSIT, <<>>, Absent, StartTime - 24)

\* an order whose UPS tracking was attached two days ago through the handler
\* of routes/orderRoutes/orderRoutes.js
AttachedByOrderRoutes ==
  attachFieldsOrderRoutes(NewOrder, <<"1","Z","1","2","3","4","5","E","0","2","9","1","9","8","0","7","9","3">>, <<"U","P","S">>, IN_TRANSIT,
                          <<>>, Absent, StartTime - 48)

\* more orders than one batch takes: one without tracking, one delivered,
\* one abandoned, one due in the future, one without polling fields and
\* BATCH_LIMIT + 1 that fell due one after the other, the order with the
\* highest id first
BatchIds == 1..(BATCH_LIMIT + 6)
BatchOrders(attempts) ==
  [id \in BatchIds |->
     IF id = 1 THEN NewOrder
     ELSE IF id = 2 THEN DeliveredOrder
     ELSE IF id = 3 THEN AbandonedOrder
     ELSE IF id = 4 THEN PolledAt(attempts, StartTime - 1)
     ELSE IF id = 5 THEN AttachedByOrderRoutes
     ELSE PolledAt(attempts, StartTime - pollHours(IN_TRANSIT, attempts) - (id - 5))]

(* Poll-due over more due orders than a batch takes; each run is followed   *)
(* through its first MaxProcessed records.                                   *)
InitBatch ==
  /\ now = StartTime
  /\ tok = NoTokens
  /\ env \in Environments
  /\ orders \in {BatchOrders(3), BatchOrders(MAX_ATTEMPTS - 1)}
  /\ att = IdleAtt
  /\ poll = [p \in Pollers |-> IdlePoll]
  /\ last = StartStep

BatchCarrier ==
  /\ poll["p1"].pc # "idle" /\ poll["p1"].i <= MaxProcessed
  /\ PollCarrier
BatchPersist ==
  /\ poll["p1"].pc # "idle" /\ poll["p1"].i <= MaxProcessed
  /\ PollPersist

NextBatch ==
  \/ PollRequest
  \/ BatchCarrier
  \/ BatchPersist

SpecBatch == InitBatch /\ [][NextBatch]_vars

(* Repeated poll-due runs over two due orders more than a batch takes, the  *)
(* orders having fallen due one after the other, the order with the lowest  *)
(* id first. The carrier has no answer for the first BATCH_LIMIT - 1 of     *)
(* them (their calls fail on every run); it may or may not answer for the   *)
(* others. Every run goes through its whole batch.                          *)
StarveIds == 1..(BATCH_LIMIT + 2)
StarveOrders(attempts) ==
  [id \in StarveIds |->
     PolledAt(attempts,
              StartTime - pollHours(IN_TRANSIT, attempts) - (BATCH_LIMIT + 3 - id))]

InitStarve ==
  /\ now = StartTime
  /\ tok = NoTokens
  /\ env = CHOOSE e \in Environments : e.UPS_ENV = NoText
  /\ orders \in {StarveOrders(3), StarveOrders(MAX_ATTEMPTS - 1)}
  /\ att = IdleAtt
  /\ poll = [p \in Pollers |-> IdlePoll]
  /\ last = StartStep

StarveRequest == PollBegin("p1", env.CRON_SECRET, NoText)
StarveCarrier ==
  /\ poll["p1"].pc = "fetch"
  /\ \E r \in UpsResults :
       /\ poll["p1"].due[poll["p1"].i] < BATCH_LIMIT => r.k # "ok"
       /\ PollFetch("p1", r)

NextStarve ==
  \/ StarveRequest
  \/ StarveCarrier
  \/ PollPersist

SpecStarve ==
  /\ InitStarve /\ [][NextStarve]_vars
  /\ WF_vars(StarveRequest) /\ WF_vars(StarveCarrier) /\ WF_vars(PollPersist)

(* computeNextPollAt and the attachment's seeding of nextPollAt on their    *)
(* own: every status, every attempt count up to ProbeAttempts.              *)
InitFn ==
  /\ now \in {StartTime, StartTime + MaxTicks}
  /\ tok = NoTokens
  /\ env \in {e \in Environments : e.UPS_ENV = NoText}
  /\ orders = [id \in OrderIds |-> NewOrder]
  /\ att = IdleAtt
  /\ poll = [p \in Pollers |-> IdlePoll]
  /\ last \in [op : {"fn"}, status : SHIPMENT_STATUS,
                attempts : 0..ProbeAttempts, next : {Absent}, seed : {Absent}]

Compute ==
  /\ last.op = "fn" /\ last.next = Absent
  /\ last' = [last EXCEPT
                !.next = computeNextPollAt(last.status, last.attempts, now),
                !.seed = seedNextPollAt(last.status, now)]
  /\ UNCHANGED <<tok, now, env, orders, att, poll>>

NextFn == Compute

SpecFn == InitFn /\ [][NextFn]_vars

(* The adapter selection and the mock gate of the attachment on their own: *)
(* every environment, carrier, tracking number and forceMock flag.         *)
\* req.body of the requests the selection is tried on
SelectTrackingInputs ==
  {x \in TrackingNumberInputs : trim(x) # NoText}
    \cup { <<"1","Z","a","b","c","d","e","f","g","h","1","2","3","4","5","6","7","8">>, <<"1","Z","1","2","3","4","5","E","0","2","9","1","9","8","0","7","9">> }
SelectCarrierInputs == CarrierInputs \cup { <<"U","P","S">>, <<"c","a","n","a","d","a","-","p","o","s","t">> }

InitSelect ==
  /\ now = StartTime
  /\ tok = NoTokens
  /\ env \in Environments
  /\ orders = [id \in OrderIds |-> NewOrder]
  /\ att = IdleAtt
  /\ poll = [p \in Pollers |-> IdlePoll]
  /\ last \in [op : {"select"}, done : {FALSE},
                trackingNumber : SelectTrackingInputs,
                carrier : SelectCarrierInputs, forceMock : ForceMockInputs,
                branch : {"none"}, slug : {NoText},
                mock : {FALSE}, mockOrderRoutes : {FALSE}]

Select ==
  /\ last.op = "select" /\ ~last.done
  /\ LET tn == toUpperCase(trim(last.trackingNumber))
         branch == attachBranch(last.carrier, tn)
     IN  last' = [last EXCEPT
           !.done = TRUE,
           !.branch = branch,
           !.slug = IF branch = "aftership" THEN slugForGet(last.carrier) ELSE NoText,
           !.mock = branch = "ups" /\ usedMock(env, tn, last.forceMock),
           !.mockOrderRoutes =
              branch = "ups" /\ usedMockOrderRoutes(env, tn, last.forceMock)]
  /\ UNCHANGED <<tok, now, env, orders, att, poll>>

NextSelect == Select

SpecSelect == InitSelect /\ [][NextSelect]_vars

(* The three status mappers on their own: codes and texts the carriers    *)
(* send, in either case, beside empty, missing and unknown ones.           *)
StatusCodes == { NoText, <<"D">>, <<"d">>, <<"O">>, <<"I">>, <<"M">>, <<"D","L">> }
StatusTexts ==
  { NoText, <<"D","e","l","i","v","e","r","e","d">>, <<"D","E","L","I","V","E","R","E","D"," ","T","O"," ","F","R","O","N","T"," ","D","O","O","R">>, <<"O","u","t"," ","F","o","r"," ","D","e","l","i","v","e","r","y"," ","T","o","d","a","y">>,
    <<"A","r","r","i","v","e","d"," ","a","t"," ","F","a","c","i","l","i","t","y">>, <<"O","n"," ","i","t","s"," ","w","a","y">>, <<"F","a","i","l","e","d"," ","a","t","t","e","m","p","t">>,
    <<"R","e","t","u","r","n"," ","t","o"," ","s","e","n","d","e","r">>, <<"O","n"," ","h","o","l","d">>, <<"L","a","b","e","l"," ","C","r","e","a","t","e","d">>, <<"W","e","a","t","h","e","r"," ","d","e","l","a","y">>,
    <<"i","n","_","t","r","a","n","s","i","t">>, <<"I","n","T","r","a","n","s","i","t">>, <<"O","U","T","_","F","O","R","_","D","E","L","I","V","E","R","Y">>, <<"a","v","a","i","l","a","b","l","e","_","f","o","r","_","p","i","c","k","u","p">>,
    <<"i","n","f","o","_","r","e","c","e","i","v","e","d">> }

InitMap ==
  /\ now = StartTime
  /\ tok = NoTokens
  /\ env \in {e \in Environments : e.UPS_ENV = NoText}
  /\ orders = [id \in OrderIds |-> NewOrder]
  /\ att = IdleAtt
  /\ poll = [p \in Pollers |-> IdlePoll]
  /\ last \in [op : {"map"}, done : {FALSE}, code : StatusCodes,
                description : StatusTexts, statusByLocale : {NoText, <<"D","e","l","i","v","e","r","e","d">>},
                ups : {"none"}, fedex : {"none"}, aftership : {"none"}]

MapStatuses ==
  /\ last.op = "map" /\ ~last.done
  /\ last' = [last EXCEPT
       !.done = TRUE,
       !.ups = mapUpsStatus([code |-> last.code, description |-> last.description]),
       !.fedex = mapFedexStatus([description |-> last.description,
                                 statusByLocale |-> last.statusByLocale,
                                 code |-> last.code]),
       !.aftership = mapStatus(last.description)]
  /\ UNCHANGED <<tok, now, env, orders, att, poll>>

NextMap == MapStatuses

SpecMap == InitMap /\ [][NextMap]_vars

(* Two reconciliation invocations that overlap within one hour over one    *)
(* due order: each reads its batch, calls the carrier and saves on its own. *)
InitOverlap ==
  /\ now = StartTime
  /\ tok = NoTokens
  /\ env = CHOOSE e \in Environments : e.UPS_ENV = NoText
  /\ orders \in [OrderIds -> {NewOrder, PolledOrder(MAX_ATTEMPTS - 2), AttachedUspsOrder}]
  /\ orders["o1"] # NewOrder /\ orders["o2"] = NewOrder
  /\ att = IdleAtt
  /\ poll = [p \in Pollers |-> IdlePoll]
  /\ last = StartStep

OverlapRequest ==
  /\ att.pc = "idle"
  /\ \E p \in Pollers : PollBegin(p, env.CRON_SECRET, NoText)
OverlapCarrier ==
  \E p \in Pollers, r \in UpsResults \cup FedexResults \cup AftershipGets :
    PollFetch(p, r)
OverlapPersist == \E p \in Pollers, dbOk \in BOOLEAN : PollSave(p, dbOk)

NextOverlap == OverlapRequest \/ OverlapCarrier \/ OverlapPersist

SpecOverlap == InitOverlap /\ [][NextOverlap]_vars

\* an attachment and a reconciliation invocation in flight together
RaceAttachRequest ==
  /\ att.pc = "idle"
  /\ \E tn \in {<<"1","Z","1","2","3","4","5","E","0","2","9","1","9","8","0","7","9","3">>, <<"9","4","0","0","1","X">>} :
       AttachBegin("o1", tn, NoText, "seller", NoText)

RacePollRequest == PollBegin("p1", env.CRON_SECRET, NoText)

NextRace ==
  \/ RaceAttachRequest
  \/ AttachCarrierUps
  \/ AttachCarrierAftership
  \/ AttachPersist
  \/ RacePollRequest
  \/ PollCarrier
  \/ PollPersist

SpecRace == InitOverlap /\ [][NextRace]_vars

(* --------------------------- OAuth tokens ------------------------------ *)

\* a cache test without the safety margin
tokenFreshNoMargin(token, exp, sec) == token # NoToken /\ exp > sec

\* `TOKEN && TOKEN_EXP - 60 > now` of the getters, now in whole seconds
tokenFresh(token, exp, sec) == token # NoToken /\ exp - 60 > sec

\* scopes.slice().sort(): the scope names in code-unit order
RECURSIVE sortScopes(_)
sortScopes(scopes) ==
  IF scopes = <<>> THEN <<>>
  ELSE LET rank == [rating |-> 1, tracking |-> 2]
           i == CHOOSE i \in DOMAIN scopes :
                  \A j \in DOMAIN scopes : rank[scopes[i]] <= rank[scopes[j]]
       IN  <<scopes[i]>> \o
           sortScopes([j \in 1..(Len(scopes) - 1) |->
                         IF j < i THEN scopes[j] ELSE scopes[j + 1]])

\* .join(" ")
RECURSIVE joinScopes(_)
joinScopes(sorted) ==
  IF sorted = <<>> THEN ""
  ELSE IF Len(sorted) = 1 THEN sorted[1]
  ELSE sorted[1] \o " " \o joinScopes(Tail(sorted))

scopeKey(scopes) == joinScopes(sortScopes(scopes))

\* what the token endpoint can answer; the token of a 200 names the scope it
\* was asked for, expires_in may be missing
TokenResponses ==
  { [k |-> "throw"],
    [k |-> "resp", status |-> 401],
    [k |-> "resp", status |-> 200, expires_in |-> 0],
    [k |-> "resp", status |-> 200, expires_in |-> 61] }
AccessToken(scope, n) == [scope |-> scope, n |-> n]
NoResponse == [k |-> "none"]

\* Math.floor(Date.now() / 1000) + (expiresIn || 1800)
tokenExpiry(sec, expiresIn) == sec + (IF expiresIn = 0 THEN 1800 ELSE expiresIn)

\* the record of one getter call: requests sent, outcome, token handed back
TokenStep(getter, scopes, network, resp, outcome, token) ==
  [op |-> "token", getter |-> getter, scopes |-> scopes, network |-> network,
   resp |-> resp, outcome |-> outcome, token |-> token, before |-> tok]

\* the call is counted; a failed or cached call leaves the caches alone
TokenCounted == [tok EXCEPT !.calls = @ + 1]

getUpsToken(r) ==
  /\ tok.calls < MaxCalls
  /\ IF tokenFresh(tok.UPS_TOKEN, tok.UPS_TOKEN_EXP, tok.sec)
       THEN /\ tok' = TokenCounted
            /\ last' = TokenStep("getUpsToken", <<"tracking">>, 0, NoResponse, "ok",
                                 tok.UPS_TOKEN)
     ELSE IF r.k = "throw" \/ r.status # 200
       THEN /\ tok' = TokenCounted
            /\ last' = TokenStep("getUpsToken", <<"tracking">>, 1, r, "error",
                                 NoToken)
     ELSE LET token == AccessToken("tracking", tok.calls + 1) IN
          /\ tok' = [TokenCounted EXCEPT
                       !.UPS_TOKEN = token,
                       !.UPS_TOKEN_EXP = tokenExpiry(tok.sec, r.expires_in)]
          /\ last' = TokenStep("getUpsToken", <<"tracking">>, 1, r, "ok", token)
  /\ UNCHANGED <<now, env, orders, att, poll>>

getUpsTokenWithScopes(scopes, r) ==
  /\ tok.calls < MaxCalls
  /\ LET key == scopeKey(scopes)
         cached == IF key \in DOMAIN tok.UPS_TOKEN_CACHE
                     THEN tok.UPS_TOKEN_CACHE[key]
                     ELSE [token |-> NoToken, exp |-> 0]
     IN
     IF key \in DOMAIN tok.UPS_TOKEN_CACHE /\ cached.exp - 60 > tok.sec
       THEN /\ tok' = TokenCounted
            /\ last' = TokenStep("getUpsTokenWithScopes", scopes, 0, NoResponse, "ok",
                                 cached.token)
     ELSE IF r.k = "throw" \/ r.status # 200
       THEN /\ tok' = TokenCounted
            /\ last' = TokenStep("getUpsTokenWithScopes", scopes, 1, r, "error",
                                 NoToken)
     ELSE LET token == AccessToken(key, tok.calls + 1)
              entry == [token |-> token,
                        exp |-> tokenExpiry(tok.sec, r.expires_in)]
          IN
          /\ tok' = [TokenCounted EXCEPT !.UPS_TOKEN_CACHE =
                       [x \in DOMAIN @ \cup {key} |->
                          IF x = key THEN entry ELSE @[x]]]
          /\ last' = TokenStep("getUpsTokenWithScopes", scopes, 1, r, "ok", token)
  /\ UNCHANGED <<now, env, orders, att, poll>>

getFedexToken(r) ==
  /\ tok.calls < MaxCalls
  /\ IF tokenFresh(tok.FEDEX_TOKEN, tok.FEDEX_TOKEN_EXP, tok.sec)
       THEN /\ tok' = TokenCounted
            /\ last' = TokenStep("getFedexToken", <<"fedex">>, 0, NoResponse, "ok",
                                 tok.FEDEX_TOKEN)
     ELSE IF trim(env.FEDEX_CLIENT_ID) = NoText
               \/ trim(env.FEDEX_CLIENT_SECRET) = NoText
       THEN /\ tok' = TokenCounted
            /\ last' = TokenStep("getFedexToken", <<"fedex">>, 0, NoResponse, "error",
                                 NoToken)
     ELSE IF r.k = "throw" \/ r.status # 200
       THEN /\ tok' = TokenCounted
            /\ last' = TokenStep("getFedexToken", <<"fedex">>, 1, r, "error",
                                 NoToken)
     ELSE LET token == AccessToken("fedex", tok.calls + 1) IN
          /\ tok' = [TokenCounted EXCEPT
                       !.FEDEX_TOKEN = token,
                       !.FEDEX_TOKEN_EXP = tokenExpiry(tok.sec, r.expires_in)]
          /\ last' = TokenStep("getFedexToken", <<"fedex">>, 1, r, "ok", token)
  /\ UNCHANGED <<now, env, orders, att, poll>>

\* a second passes between two calls
TickSec ==
  /\ tok.sec < StartSec + MaxTicks
  /\ tok' = [tok EXCEPT !.sec = @ + 1]
  /\ UNCHANGED <<now, env, orders, att, poll, last>>

\* the scope lists callers ask for
ScopeInputs == { <<"rating">>, <<"tracking", "rating">>, <<"rating", "tracking">> }

\* caches left by earlier calls: every token issued `life` seconds before its
\* expiry margin is reached
TokensIssued(life, keys) ==
  [NoTokens EXCEPT
     !.UPS_TOKEN = AccessToken("tracking", 0),
     !.UPS_TOKEN_EXP = StartSec + 60 + life,
     !.FEDEX_TOKEN = AccessToken("fedex", 0),
     !.FEDEX_TOKEN_EXP = StartSec + 60 + life,
     !.UPS_TOKEN_CACHE =
        [x \in keys |-> [token |-> AccessToken(x, 0), exp |-> StartSec + 60 + life]]]

\* process.env with and without the FedEx credentials
TokenEnvironments ==
  { [UPS_ENV |-> NoText, UPS_ALLOW_TEST_NUMBERS |-> NoText, CRON_SECRET |-> NoText,
     FEDEX_CLIENT_ID |-> id, FEDEX_CLIENT_SECRET |-> secret] :
      id \in {<<"l","7","x","x">>}, secret \in {<<"s","3","c","r","3","t">>, <<" ">>, NoText} }

InitToken ==
  /\ now = StartTime
  /\ env \in TokenEnvironments
  /\ orders = [id \in OrderIds |-> NewOrder]
  /\ att = IdleAtt
  /\ poll = [p \in Pollers |-> IdlePoll]
  /\ last = StartStep
  /\ tok \in { NoTokens,
               TokensIssued(0, {"rating"}),
               TokensIssued(1, {"rating tracking"}),
               TokensIssued(1740, {"rating", "rating tracking"}) }

TokenUps == \E r \in TokenResponses : getUpsToken(r)
TokenUpsScopes ==
  \E scopes \in ScopeInputs, r \in TokenResponses : getUpsTokenWithScopes(scopes, r)
TokenFedex == \E r \in TokenResponses : getFedexToken(r)

NextToken == TickSec \/ TokenUps \/ TokenUpsScopes \/ TokenFedex

SpecToken == InitToken /\ [][NextToken]_vars

(* ======================= reconciliation: claims ======================== *)

Range(s) == {s[i] : i \in 1..Len(s)}

\* the latest step saved a polled record
PollSaved == last.op = "poll" /\ last.step = "save" /\ last.outcome = "ok"

\* C1: after every successful per-record reconciliation step the order's
\* nextPollAt is null if and only if the new status is delivered or the
\* incremented pollAttempts is at least 120; otherwise it is a time after the
\* moment of the poll.
C1_NextPollNullIffStop ==
  PollSaved =>
    LET d == orders[last.id] IN
    /\ d.nextPollAt = Null <=>
         (d.shipmentStatus = "delivered" \/ d.pollAttempts >= 120)
    /\ d.nextPollAt # Null =>
         /\ IsDate(d.nextPollAt) /\ IsDate(d.lastPolledAt)
         /\ d.nextPollAt.t > d.lastPolledAt.t

\* C1 witness: a poll that reached the ceiling on an undelivered order
C1_Witness ==
  /\ PollSaved
  /\ orders[last.id].pollAttempts = 120
  /\ orders[last.id].shipmentStatus # "delivered"
  /\ orders[last.id].nextPollAt = Null

\* C2: for every status and every pollAttempts value the delay that
\* computeNextPollAt adds to the current time is at most 24 hours, for the
\* value a reconciliation stores and for the value an attachment seeds.
C2_DelayAtMostADay ==
  (last.op = "fn" /\ last.next # Absent) =>
    /\ IsDate(last.next) /\ last.next.t - now <= 24
    /\ IsDate(last.seed) => last.seed.t - now <= 24

\* C2 witness: an attempt count beyond the ceiling, scheduled a full day ahead
C2_Witness ==
  /\ last.op = "fn" /\ last.attempts > 120
  /\ last.next = At(now + 24)

\* the cadence table as the specification gives it
ClaimedBase(status) ==
  CASE status = "out_for_delivery" -> 2
    [] status = "in_transit" -> 6
    [] OTHER -> 12

\* C3: computeNextPollAt(status, attempts) schedules the next poll exactly
\* min(base(status) + floor(attempts / 3), 24) hours ahead, base being 2 for
\* out_for_delivery, 6 for in_transit and 12 for every other status; an
\* attachment with status in_transit seeds nextPollAt = now + 6h.
C3_ExactHours ==
  (last.op = "fn" /\ last.next # Absent) =>
    /\ last.next =
         At(now + Min(ClaimedBase(last.status) + last.attempts \div 3, 24))
    /\ last.status = "in_transit" => last.seed = At(now + 6)

\* C3 witness: in transit, backed off by some hours but not yet capped
C3_Witness ==
  /\ last.op = "fn" /\ last.status = "in_transit" /\ last.attempts = 10
  /\ last.next = At(now + 9)
  /\ last.seed = At(now + 6)

\* the results of the invocation p as they stand after the latest step
ResultsSoFar == IF last.code = 200 THEN last.results ELSE poll[last.p].results

\* C4: when the carrier fetch or a later step fails for a record, the run's
\* results get an error entry for that order id, no persisted order changes,
\* and the order is still due.
C4_FailureLeavesOrderDue ==
  [][ (poll' # poll /\ last'.op = "poll" /\ last'.outcome = "error") =>
        /\ orders' = orders
        /\ ResultsSoFar' # <<>>
        /\ ResultsSoFar'[Len(ResultsSoFar')] = [orderId |-> last'.id, error |-> TRUE]
        /\ isDue(orders'[last'.id], now') ]_vars

\* C4 witness: a batch that ended on a record whose save failed, after the
\* fields had been assigned in memory
C4_Witness ==
  /\ last.op = "poll" /\ last.step = "save" /\ last.outcome = "error"
  /\ last.code = 200
  /\ last.to # last.from
  /\ orders[last.id].shipmentStatus = last.from

\* C5: every selected record yields exactly one result entry, in selection
\* order, whatever happened to the records before it, and the reported
\* processed count is the number of selected records.
C5_OneEntryPerRecord ==
  (last.op = "poll" /\ last.code = 200) =>
    /\ last.processed = Len(last.due)
    /\ Len(last.results) = Len(last.due)
    /\ \A i \in 1..Len(last.due) : last.results[i].orderId = last.due[i]
    /\ \A i, j \in 1..Len(last.due) : i # j => last.due[i] # last.due[j]

\* C5 witness: a batch of two whose first record failed and whose second
\* record was polled and saved
C5_Witness ==
  /\ last.op = "poll" /\ last.code = 200 /\ Len(last.due) = 2
  /\ "error" \in DOMAIN last.results[1]
  /\ "to" \in DOMAIN last.results[2]
  /\ orders[last.due[2]].lastPolledAt = At(now)

\* C6: the step that polls a record leaves one notification, which is not a
\* shipped or a delivered one, exactly when the new status differs from the
\* previous one and is out_for_delivery, one delivered notification exactly
\* when it differs and is delivered, and none in every other case; no other
\* step of the invocation leaves a notification.
C6_NotifyOnTransitionOnly ==
  last.op = "poll" =>
    IF last.step = "fetch" /\ last.outcome = "fetched"
      THEN IF last.to # last.from /\ last.to = "out_for_delivery"
             THEN /\ Len(last.notifs) = 1
                  /\ last.notifs[1] \notin {"order_shipped", "order_delivered"}
           ELSE IF last.to # last.from /\ last.to = "delivered"
             THEN last.notifs = <<"order_delivered">>
           ELSE last.notifs = <<>>
      ELSE last.notifs = <<>>

\* C6 witness: a poll finds the status changed to out_for_delivery
C6_Witness ==
  /\ last.op = "poll" /\ last.step = "fetch" /\ last.outcome = "fetched"
  /\ last.from = "in_transit" /\ last.to = "out_for_delivery"

(* ========================= attachment: claims ========================== *)

\* C7: when the carrier adapter fails during an attachment (a throw of any
\* branch, a missing package or track result), no persisted order changes and
\* the request ends with an error response.
C7_AdapterFailureWritesNothing ==
  [][ (att.pc = "fetch" /\ att'.pc = "idle") =>
        /\ orders' = orders
        /\ last'.code >= 400
        /\ last'.notifs = <<>> ]_vars

\* C7 witness: the UPS adapter answered 404 for an order that had tracking
C7_Witness ==
  /\ last.op = "attach" /\ last.step = "fetch" /\ last.code = 404
  /\ last.call = "ups"
  /\ orders[last.id].trackingNumber # NoText

\* a text of blanks only, or no text
Blank(s) == \A i \in 1..Len(s) : s[i] = " "

\* C8: the attachment answers 400 when the tracking number is missing or
\* blank, else 404 when the order does not exist, else 403 when the caller
\* is not the order's seller, and goes on otherwise; in each of the three
\* outcomes no carrier call is made, no notification is issued and no order
\* changes.
C8_RejectionsTouchNothing ==
  [][ (last'.op = "attach" /\ last'.step = "begin") =>
        LET r == last'.req
            exists == last'.id \in DOMAIN orders
            seller == exists /\ orders[last'.id].artistUserId = r.caller
        IN
        /\ last'.code =
             (IF Blank(r.trackingNumber) THEN 400
              ELSE IF ~exists THEN 404
              ELSE IF ~seller THEN 403
              ELSE 0)
        /\ last'.code # 0 =>
             /\ orders' = orders
             /\ att'.pc = "idle"
             /\ last'.call = "none"
             /\ last'.notifs = <<>> ]_vars

\* C8 witness: the buyer asks to attach tracking to an existing order
C8_Witness ==
  /\ last.op = "attach" /\ last.step = "begin" /\ last.code = 403
  /\ last.req.caller = "buyer"
  /\ ~Blank(last.req.trackingNumber)

\* the latest step saved an attachment
AttachSaved == last.op = "attach" /\ last.step = "save" /\ last.code = 200

\* C9: every successful attachment leaves the order with pollAttempts = 0,
\* lastPolledAt = null, and nextPollAt = null when the status is delivered,
\* otherwise nextPollAt = computeNextPollAt(status, 0) of the hour of the call.
C9_AttachmentSeedsPolling ==
  AttachSaved =>
    LET d == orders[last.id] IN
    /\ d.pollAttempts = 0
    /\ d.lastPolledAt = Null
    /\ d.nextPollAt = IF d.shipmentStatus = "delivered" THEN Null
                      ELSE computeNextPollAt(d.shipmentStatus, 0, last.at)

\* C9 witness: a re-attachment to an order that had been polled 118 times
C9_Witness ==
  /\ AttachSaved
  /\ orders[last.id].shippedAt = At(0)
  /\ orders[last.id].pollAttempts = 0
  /\ IsDate(orders[last.id].nextPollAt)

\* the shipping state that does not derive from the time of the call
SameShipping(a, b) ==
  /\ a.trackingNumber = b.trackingNumber
  /\ a.carrier = b.carrier
  /\ a.shipmentStatus = b.shipmentStatus
  /\ a.trackingEvents = b.trackingEvents
  /\ a.verified = b.verified
  /\ a.shippedAt = b.shippedAt
  /\ a.pollAttempts = b.pollAttempts

\* C10: an attachment that repeats the one before it (same order, tracking
\* number and carrier, identical carrier answer) passes validation, so only
\* a database failure can fail it, and its save leaves tracking number,
\* carrier, status, events, verified, shippedAt and pollAttempts as the first
\* call left them.
C10_RepeatedAttachmentIdempotent ==
  [][ (att.pc = "save"
       /\ att.prev = [tn |-> att.tn, carrier |-> att.carrier, result |-> att.result]) =>
        /\ validates(att.doc)
        /\ last'.code = 200 =>
             /\ last'.repeat
             /\ SameShipping(orders'[att.id], orders[att.id]) ]_vars

\* C10 witness: the same attachment saved a second time, an hour or more
\* after the first
C10_Witness ==
  /\ AttachSaved /\ last.repeat
  /\ orders[last.id].shippedAt.t >= StartTime
  /\ orders[last.id].shippedAt.t < last.at

(* ===================== adapter selection: claims ======================= *)

\* C11: an explicitly supplied carrier selects that carrier's adapter (UPS
\* for ups, FedEx for fedex, the aggregator with the lower-cased carrier as
\* slug for any other); without a carrier the 1Z + 16 alphanumerics pattern
\* selects UPS and any other number the aggregator with slug "auto".
C11_ExplicitCarrierFirst ==
  (last.op = "select" /\ last.done) =>
    LET c == toLowerCase(last.carrier)
        tn == toUpperCase(trim(last.trackingNumber))
    IN  IF last.carrier # NoText
          THEN IF c = <<"u","p","s">> THEN last.branch = "ups"
               ELSE IF c = <<"f","e","d","e","x">> THEN last.branch = "fedex"
               ELSE last.branch = "aftership" /\ last.slug = c
          ELSE IF isUpsPattern(tn) THEN last.branch = "ups"
               ELSE last.branch = "aftership" /\ last.slug = <<"a","u","t","o">>

\* C11 witness: carrier FedEx supplied together with a 1Z number
C11_Witness ==
  /\ last.op = "select" /\ last.done
  /\ toLowerCase(last.carrier) = <<"f","e","d","e","x">>
  /\ isUpsPattern(toUpperCase(trim(last.trackingNumber)))

\* C12: with the production environment setting no attachment takes the UPS
\* mock payload, whatever forceMock, the allow-test-numbers flag and the
\* tracking number are, in either version of the handler.
C12_NoMockInProduction ==
  (last.op = "select" /\ last.done /\ toLowerCase(env.UPS_ENV) = <<"p","r","o","d">>) =>
    (~last.mock /\ ~last.mockOrderRoutes)

\* C12 witness: production, allow-test-numbers set, forceMock=1, a UPS test
\* number
C12_Witness ==
  /\ last.op = "select" /\ last.done /\ last.branch = "ups"
  /\ toLowerCase(env.UPS_ENV) = <<"p","r","o","d">>
  /\ trim(last.forceMock) = <<"1">>
  /\ isTestTrackingNumber(toUpperCase(trim(last.trackingNumber)))

(* ========================= poll-due: claims ============================ *)

\* the request carries the configured secret in its header or its query
CarriesSecret(req) ==
  /\ env.CRON_SECRET # NoText
  /\ req.headerSecret = env.CRON_SECRET \/ req.querySecret = env.CRON_SECRET

\* C13: a poll-due request that carries the configured secret neither in the
\* x-cron-secret header nor in the secret query parameter is answered 403,
\* selects no order, calls no carrier and changes no order; only a request
\* that carries it gets past the guard.
C13_GuardShutsOutStrangers ==
  [][ (last'.op = "poll" /\ last'.step = "begin" /\ ~CarriesSecret(last'.req)) =>
        /\ last'.code = 403
        /\ last'.due = <<>> /\ last'.call = "none"
        /\ poll' = poll
        /\ orders' = orders ]_vars

\* C13 witness: a request without any secret
C13_Witness ==
  /\ last.op = "poll" /\ last.step = "begin"
  /\ last.req.headerSecret = NoText /\ last.req.querySecret = NoText

\* an order the selection is said to take, at hour t
DueAsClaimed(doc, t) ==
  /\ doc.trackingNumber # NoText
  /\ doc.shipmentStatus # "delivered"
  /\ doc.nextPollAt = Absent \/ (IsDate(doc.nextPollAt) /\ doc.nextPollAt.t <= t)

\* C14: the batch of an invocation holds at most 50 orders, each once, each
\* with a tracking number, a status other than delivered and a nextPollAt
\* that is absent or not later than now, in ascending nextPollAt order, and
\* an order that qualifies is left out only when the batch is full and the
\* order does not sort before the batch's last; a step of the run changes no
\* order but one of its batch.
C14_OnlyDueOrdersInBatch ==
  [][ /\ (last'.op = "poll" /\ last'.step = "begin" /\ last'.code # 403) =>
           LET due == IF poll'["p1"].pc = "idle" THEN <<>> ELSE poll'["p1"].due
               in == {due[i] : i \in 1..Len(due)}
           IN  /\ Len(due) <= 50
               /\ Cardinality(in) = Len(due)
               /\ \A id \in in : DueAsClaimed(orders[id], now)
               /\ \A i, j \in 1..Len(due) :
                    (i < j /\ IsDate(orders[due[i]].nextPollAt)) =>
                       /\ IsDate(orders[due[j]].nextPollAt)
                       /\ orders[due[i]].nextPollAt.t <= orders[due[j]].nextPollAt.t
               /\ \A id \in DOMAIN orders \ in :
                    DueAsClaimed(orders[id], now) =>
                       /\ Len(due) = 50
                       /\ IsDate(orders[id].nextPollAt)
                       /\ \A x \in in : IsDate(orders[x].nextPollAt) =>
                            orders[x].nextPollAt.t <= orders[id].nextPollAt.t
      /\ \A id \in DOMAIN orders :
           orders'[id] # orders[id] =>
             /\ poll["p1"].pc # "idle"
             /\ \E i \in 1..Len(poll["p1"].due) :
                  /\ poll["p1"].due[i] = id
                  /\ DueAsClaimed(poll["p1"].docs[i], now) ]_vars

\* C14 witness: a run over a full batch of 50 has saved its second record,
\* and two orders that are due are still waiting outside the batch
C14_Witness ==
  /\ poll["p1"].pc = "fetch" /\ Len(poll["p1"].due) = 50 /\ poll["p1"].i = 3
  /\ last.op = "poll" /\ last.step = "save" /\ last.outcome = "ok"
  /\ Cardinality({id \in DOMAIN orders :
                    /\ isDue(orders[id], now)
                    /\ \A i \in 1..50 : poll["p1"].due[i] # id}) = 2

(* ============================ carrier: claims ========================== *)

\* the carrier an attachment names: the slug the aggregator answered, else
\* the carrier of the request
NamedCarrier(key) ==
  IF "slug" \in DOMAIN key.result /\ key.result.slug # NoText
    THEN key.result.slug ELSE key.carrier

\* C15: every stored carrier is one of the supported carriers; an attachment
\* is saved only when the carrier it names (spaces and case aside) is one of
\* them, and then that carrier is the one stored; an attachment through the
\* aggregator that names none is not saved.
C15_CarrierClosedSet ==
  /\ \A id \in DOMAIN orders : orders[id].carrier \in CARRIERS \cup {NoText}
  /\ AttachSaved =>
       LET named == NamedCarrier(last.key)
           slug == toLowerCase(stripSpaces(named))
       IN  (named # NoText \/ "slug" \in DOMAIN last.key.result) =>
             \E c \in CARRIERS :
               toLowerCase(c) = slug /\ orders[last.id].carrier = c

\* C15 witness: the aggregator answered with the slug dhl-express and the
\* attachment was saved
C15_Witness ==
  /\ AttachSaved
  /\ NamedCarrier(last.key) = <<"d","h","l","-","e","x","p","r","e","s","s">>

(* ========================= normalizers: claims ========================= *)

\* the codes and keywords each mapper knows that lead away from shipped
UpsKeywords ==
  { <<"d","e","l","i","v","e","r","e","d">>, <<"o","u","t"," ","f","o","r"," ","d","e","l","i","v","e","r","y">>, <<"i","n"," ","t","r","a","n","s","i","t">>, <<"a","r","r","i","v","e","d">>, <<"d","e","p","a","r","t","e","d">>,
    <<"o","r","i","g","i","n"," ","s","c","a","n">>, <<"d","e","s","t","i","n","a","t","i","o","n"," ","s","c","a","n">>, <<"e","x","c","e","p","t","i","o","n">>, <<"f","a","i","l","e","d"," ","a","t","t","e","m","p","t">>,
    <<"r","e","t","u","r","n"," ","t","o"," ","s","e","n","d","e","r">>, <<"h","o","l","d">> }
FedexKeywords ==
  { <<"d","e","l","i","v","e","r","e","d">>, <<"o","u","t"," ","f","o","r"," ","d","e","l","i","v","e","r","y">>, <<"i","n"," ","t","r","a","n","s","i","t">>, <<"o","n"," ","i","t","s"," ","w","a","y">>,
    <<"d","e","p","a","r","t","e","d">>, <<"a","r","r","i","v","e","d">>, <<"a","t"," ","f","e","d","e","x"," ","l","o","c","a","t","i","o","n">>, <<"a","t"," ","l","o","c","a","l"," ","f","a","c","i","l","i","t","y">>,
    <<"e","x","c","e","p","t","i","o","n">>, <<"f","a","i","l","e","d">>, <<"h","o","l","d">>, <<"r","e","t","u","r","n">> }
AftershipTags ==
  { <<"i","n","_","t","r","a","n","s","i","t">>, <<"o","u","t","_","f","o","r","_","d","e","l","i","v","e","r","y">>, <<"d","e","l","i","v","e","r","e","d">>, <<"a","v","a","i","l","a","b","l","e","_","f","o","r","_","p","i","c","k","u","p">>,
    <<"e","x","c","e","p","t","i","o","n">>, <<"f","a","i","l","e","d","_","a","t","t","e","m","p","t">>, <<"r","e","t","u","r","n","_","t","o","_","s","e","n","d","e","r">> }

\* C16: mapUpsStatus, mapFedexStatus and mapStatus each answer one value of
\* SHIPMENT_STATUS for every code and text, empty and missing ones included,
\* and answer shipped when the input carries none of the mapper's codes and
\* keywords.
C16_MappersTotal ==
  (last.op = "map" /\ last.done) =>
    LET code == toUpperCase(last.code)
        desc == toLowerCase(last.description)
        raw == toLowerCase(IF last.description # NoText THEN last.description
                           ELSE IF last.statusByLocale # NoText
                             THEN last.statusByLocale
                           ELSE last.code)
    IN  /\ {last.ups, last.fedex, last.aftership} \subseteq SHIPMENT_STATUS
        /\ (code \notin {<<"D">>, <<"O">>, <<"I">>}
              /\ \A w \in UpsKeywords : ~includes(desc, w)) => last.ups = "shipped"
        /\ (\A w \in FedexKeywords : ~includes(raw, w)) => last.fedex = "shipped"
        /\ desc \notin AftershipTags => last.aftership = "shipped"

\* C16 witness: no code and a text no mapper knows
C16_Witness ==
  /\ last.op = "map" /\ last.done
  /\ last.code = NoText /\ last.description = <<"W","e","a","t","h","e","r"," ","d","e","l","a","y">>
  /\ last.statusByLocale = NoText
  /\ last.ups = "shipped" /\ last.fedex = "shipped" /\ last.aftership = "shipped"

(* ========================== invariants: claims ========================= *)

\* C17: in every state of every order, nextPollAt is null or absent exactly
\* when shipmentStatus is delivered or pollAttempts has reached MAX_ATTEMPTS;
\* orders without tracking and orders whose last poll failed are included.
C17_NextPollAtAbsentIffStopped ==
  \A id \in DOMAIN orders :
    (~IsDate(orders[id].nextPollAt)) <=>
      (orders[id].shipmentStatus = "delivered" \/ orders[id].pollAttempts >= 120)

\* C17 witness: a poll run has ended and an order that never had tracking
\* attached is pending, never polled, and has no nextPollAt
C17_Witness ==
  /\ last.op = "poll" /\ last.code = 200 /\ last.processed >= 1
  /\ \E id \in DOMAIN orders :
       /\ orders[id].trackingNumber = NoText
       /\ orders[id].shipmentStatus = "pending"
       /\ orders[id].pollAttempts = 0
       /\ orders[id].nextPollAt = Absent

(* ========================= concurrency: claims ========================= *)

\* the polling fields of a polled order agree with each other as one
\* invocation leaves them
Consistent(d) ==
  /\ (~IsDate(d.nextPollAt)) <=>
       (d.shipmentStatus = "delivered" \/ d.pollAttempts >= 120)
  /\ d.shipmentStatus = "delivered" => IsDate(d.deliveredAt)
  /\ d.shipmentStatus # "delivered" => ~IsDate(d.deliveredAt)
  /\ (IsDate(d.nextPollAt) /\ IsDate(d.lastPolledAt)) =>
       d.nextPollAt = computeNextPollAt(d.shipmentStatus, d.pollAttempts,
                                        d.lastPolledAt.t)

\* invocation q has issued the notification of order id reaching status `to`
\* and is about to save, or the status is saved already
Announced(q, id, to) ==
  \/ /\ poll[q].pc = "save" /\ poll[q].due[poll[q].i] = id
     /\ poll[q].cur.shipmentStatus = to
     /\ poll[q].docs[poll[q].i].shipmentStatus # to
  \/ orders[id].shipmentStatus = to

\* C18: when two invocations overlap on one due order, every step leaves the
\* order in a state one invocation alone leaves it in (status, deliveredAt,
\* pollAttempts, lastPolledAt and nextPollAt agreeing with each other), and
\* no notification is issued that one invocation alone would not issue: the
\* change of status it announces has not been announced or saved before.
C18_OverlapAsOneInvocation ==
  [][ /\ \A id \in DOMAIN orders :
           orders'[id].trackingNumber # NoText => Consistent(orders'[id])
      /\ (last'.op = "poll" /\ last'.step = "fetch" /\ last'.notifs # <<>>) =>
           \A q \in Pollers \ {last'.p} : ~Announced(q, last'.id, last'.to) ]_vars

\* C18 witness: the second of two overlapping invocations saves an order the
\* first has saved since the second read it
C18_Witness ==
  /\ last.op = "poll" /\ last.step = "save" /\ last.outcome = "ok"
  /\ \E q \in Pollers \ {last.p} :
       /\ poll[q].pc = "idle"
       /\ orders[last.id].pollAttempts = MAX_ATTEMPTS - 1
       /\ orders[last.id].shipmentStatus = "delivered"
       /\ IsDate(orders[last.id].nextPollAt)

(* ========================= OAuth tokens: claims ======================== *)

\* the cache key the claim gives a set of scopes: its names in order, spaced
KeyOfScopeSet(scopes) ==
  LET names == {scopes[i] : i \in DOMAIN scopes} IN
  IF names = {"rating"} THEN "rating"
  ELSE IF names = {"tracking"} THEN "tracking"
  ELSE IF names = {"rating", "tracking"} THEN "rating tracking"
  ELSE "fedex"

\* what the getter of the latest call had cached for what it was asked
CachedBefore ==
  LET b == last.before IN
  IF last.getter = "getUpsToken"
    THEN [token |-> b.UPS_TOKEN, exp |-> b.UPS_TOKEN_EXP]
  ELSE IF last.getter = "getFedexToken"
    THEN [token |-> b.FEDEX_TOKEN, exp |-> b.FEDEX_TOKEN_EXP]
  ELSE IF KeyOfScopeSet(last.scopes) \in DOMAIN b.UPS_TOKEN_CACHE
    THEN b.UPS_TOKEN_CACHE[KeyOfScopeSet(last.scopes)]
  ELSE [token |-> NoToken, exp |-> 0]

\* a token is cached and expires more than 60 seconds after the call
FreshBefore ==
  CachedBefore.token # NoToken /\ CachedBefore.exp > last.before.sec + 60

\* the latest call left every cached token and expiry as it was
CachesKept ==
  /\ tok.UPS_TOKEN = last.before.UPS_TOKEN
  /\ tok.UPS_TOKEN_EXP = last.before.UPS_TOKEN_EXP
  /\ tok.FEDEX_TOKEN = last.before.FEDEX_TOKEN
  /\ tok.FEDEX_TOKEN_EXP = last.before.FEDEX_TOKEN_EXP
  /\ tok.UPS_TOKEN_CACHE = last.before.UPS_TOKEN_CACHE

\* the token request of the latest call was refused or did not get through
Refused ==
  last.network = 1 /\ (last.resp.k = "throw" \/ last.resp.status # 200)

\* what holds of every call whatever the credentials
TokenCallAsClaimed ==
  /\ FreshBefore => /\ last.network = 0 /\ last.outcome = "ok"
                    /\ last.token = CachedBefore.token
                    /\ CachesKept
  /\ Refused => last.outcome = "error" /\ CachesKept
  /\ (last.network = 1 /\ ~Refused) =>
        /\ last.outcome = "ok"
        /\ last.token = [scope |-> KeyOfScopeSet(last.scopes),
                         n |-> last.before.calls + 1]
  /\ last.outcome = "ok" => last.token.scope = KeyOfScopeSet(last.scopes)

\* getFedexToken was called without FEDEX_CLIENT_ID or FEDEX_CLIENT_SECRET
NoFedexCredentials ==
  /\ last.getter = "getFedexToken"
  /\ \/ trim(env.FEDEX_CLIENT_ID) = NoText
     \/ trim(env.FEDEX_CLIENT_SECRET) = NoText

\* C19 as stated: a getter hands back the cached token without a request
\* exactly when the cached expiry is more than 60 seconds after now and
\* otherwise sends one token request; a refused request raises an error, is
\* not repeated and leaves every cached token and expiry as it was; the token
\* handed back for a set of scopes was issued for that set.
C19_TokenCache ==
  last.op = "token" =>
    /\ TokenCallAsClaimed
    /\ ~FreshBefore => last.network = 1

\* C19 as the code has it: as stated, except that getFedexToken without
\* FEDEX_CLIENT_ID or FEDEX_CLIENT_SECRET and without a fresh cached token
\* raises an error before any request and leaves the caches as they were.
C19_TokenCacheWithCredentials ==
  last.op = "token" =>
    /\ TokenCallAsClaimed
    /\ (~FreshBefore /\ ~NoFedexCredentials) => last.network = 1
    /\ (~FreshBefore /\ NoFedexCredentials) =>
          last.network = 0 /\ last.outcome = "error" /\ CachesKept

\* C19 witness: a token for {tracking, rating} fetched just now is handed
\* back from the cache a second later to a caller asking for {rating, tracking}
C19_Witness ==
  /\ last.op = "token" /\ last.getter = "getUpsTokenWithScopes"
  /\ last.scopes = <<"tracking", "rating">>
  /\ last.network = 0 /\ last.outcome = "ok"
  /\ last.token = [scope |-> "rating tracking", n |-> 1]
  /\ last.before.sec = StartSec + 1

(* ======================= error handling: claims ======================== *)

\* C20: in the attachment handler, an order.save() that fails after the
\* carrier call succeeded is answered with status 500, whichever adapter
\* served the request.
C20_SaveFailureIs500 ==
  (last.op = "attach" /\ last.step = "save" /\ last.code # 200) => last.code = 500

\* C20 witness: a save that failed in the UPS or the FedEx branch
C20_Witness ==
  last.op = "attach" /\ last.step = "save" /\ last.code = 400

(* ======================== notifications: claims ======================== *)

\* C21: every successful attachment, whichever branch served it, issues
\* exactly one shipped notification and, exactly when the stored status is
\* delivered, one delivered notification; the fetch step issues what goes out
\* before the save, the save step what goes out after it.
C21_AttachmentNotifies ==
  [][ (att.pc = "save" /\ last'.step = "save" /\ last'.code = 200) =>
        LET sent == last.notifs \o last'.notifs
            count(ty) == Cardinality({i \in DOMAIN sent : sent[i] = ty})
        IN  /\ count("order_shipped") = 1
            /\ count("order_delivered") =
                 (IF orders'[last'.id].shipmentStatus = "delivered" THEN 1 ELSE 0)
            /\ Len(sent) = count("order_shipped") + count("order_delivered") ]_vars

\* C21 witness: the fallback saved a delivered shipment
C21_Witness ==
  /\ last.op = "attach" /\ last.step = "save" /\ last.code = 200
  /\ last.key.result.k = "ok" /\ last.key.carrier = <<"F","e","d","E","x">>
  /\ orders[last.id].shipmentStatus = "delivered"
  /\ last.notifs = <<>>

(* ========================= termination: claims ========================= *)

\* C22: under fair reconciliation invocations every order that has tracking
\* attached eventually has nextPollAt = null, whether it was delivered or
\* reached MAX_ATTEMPTS, also when its carrier call fails every time.
C22_PollingEventuallyStops ==
  \A id \in OrderIds :
    (orders[id].trackingNumber # NoText) ~> (orders[id].nextPollAt = Null)

\* C22 witness: the carrier call of a tracked order has just failed and the
\* order is as due as before
C22_Witness ==
  /\ last.op = "poll" /\ last.step = "fetch" /\ last.outcome = "error"
  /\ last.id = "o1"
  /\ orders["o1"] = PolledOrder(MAX_ATTEMPTS - 2)
  /\ isDue(orders["o1"], now)

(* ====================== stored shipping: claims ======================== *)

\* C23: verified, once true, is never set back to false by an attachment or
\* a reconciliation step, and every such step that stores a non-empty
\* trackingEvents list leaves verified true.
C23_VerifiedTracksEvents ==
  [][ \A id \in OrderIds :
        /\ orders[id].verified => orders'[id].verified
        /\ (orders'[id] # orders[id] /\ orders'[id].trackingEvents # <<>>) =>
              orders'[id].verified ]_vars

\* C23 witness: a reconciliation step has stored scans for an order that was
\* attached without any
C23_Witness ==
  /\ last.op = "poll" /\ last.step = "save" /\ last.outcome = "ok"
  /\ orders[last.id].trackingEvents # <<>>
  /\ orders[last.id].pollAttempts = 1
  /\ ~orders[last.id].verified

AdapterUsed == IF last.call = "none" THEN "ups" ELSE last.call

\* C25 as stated: the adapter the scheduler takes for the stored carrier and
\* tracking number of an attached order is the adapter the attachment used.
C25_SameAdapterOnPoll ==
  [][ (att.pc = "save" /\ last'.step = "save" /\ last'.code = 200) =>
        pollBranch(orders'[last'.id]) = AdapterUsed ]_vars

\* C25 as the code has it: the same adapter, except that an order attached
\* through the aggregator and stored with carrier UPS or FedEx is polled
\* through that carrier's direct adapter.
C25_SameAdapterUnlessSlugDirect ==
  [][ (att.pc = "save" /\ last'.step = "save" /\ last'.code = 200) =>
        LET stored == orders'[last'.id].carrier IN
        pollBranch(orders'[last'.id]) =
          (IF AdapterUsed = "aftership" /\ stored = <<"U","P","S">> THEN "ups"
           ELSE IF AdapterUsed = "aftership" /\ stored = <<"F","e","d","E","x">> THEN "fedex"
           ELSE AdapterUsed) ]_vars

\* C25 witness: an attachment served by the UPS mock, and the scheduler would
\* take UPS direct
C25_Witness ==
  /\ AttachSaved
  /\ last.key.result.k = "ok" /\ last.key.carrier = <<"F","e","d","E","x">>
  /\ usedMock(env, last.key.tn, <<" ", "1">>)
  /\ orders[last.id].carrier = <<"U","P","S">>
  /\ pollBranch(orders[last.id]) = "ups"

(* ==================== delivered is final: claims ======================= *)

\* the status, events and polling state of a stored order
Reconciled(d) ==
  <<d.shipmentStatus, d.trackingEvents, d.pollAttempts, d.lastPolledAt,
    d.nextPollAt>>

\* C26: once an order is stored as delivered, no step of a reconciliation
\* invocation changes its status, its events or its polling state, also when
\* the invocation read the order before it became delivered.
C26_DeliveredIsFinal ==
  [][ \A id \in OrderIds :
        (orders[id].shipmentStatus = "delivered" /\ last'.op = "poll") =>
          Reconciled(orders'[id]) = Reconciled(orders[id]) ]_vars

\* C26 witness: an order is stored as delivered while an invocation that read
\* it in transit holds another status for it and is about to save
C26_Witness ==
  \E q \in Pollers :
    /\ poll[q].pc = "save"
    /\ orders[poll[q].due[poll[q].i]].shipmentStatus = "delivered"
    /\ poll[q].docs[poll[q].i].shipmentStatus # "delivered"
    /\ poll[q].cur.shipmentStatus # "delivered"

(* ================ attachment against reconciliation: claims ============= *)

\* invocation p saves the order it holds in this step
PollSaves(p) ==
  /\ poll[p].pc = "save"
  /\ last'.op = "poll" /\ last'.step = "save" /\ last'.outcome = "ok"
  /\ last'.p = p

\* C27: when a reconciliation step saves an order, the status and events it
\* stores were fetched for the tracking number the order is stored with, and
\* if an attachment saved the order after the step had read it, the step
\* leaves the attachment's pollAttempts alone.
C27_AttachmentWinsRace ==
  [][ \A p \in Pollers :
        PollSaves(p) =>
          LET id == poll[p].due[poll[p].i]
              loaded == poll[p].docs[poll[p].i]
          IN  /\ orders'[id].shipmentStatus = poll[p].cur.shipmentStatus =>
                   orders'[id].trackingNumber = loaded.trackingNumber
              /\ orders[id] # loaded =>
                   orders'[id].pollAttempts = orders[id].pollAttempts ]_vars

\* C27 witness: a reconciliation step is about to save an order that an
\* attachment has given another tracking number since the step read it
C27_Witness ==
  /\ poll["p1"].pc = "save" /\ att.pc = "idle"
  /\ last.op = "attach" /\ last.step = "save" /\ last.code = 200
  /\ poll["p1"].due[poll["p1"].i] = last.id
  /\ orders[last.id].trackingNumber # poll["p1"].docs[poll["p1"].i].trackingNumber
  /\ orders[last.id].pollAttempts = 0
  /\ poll["p1"].cur.pollAttempts = MAX_ATTEMPTS - 1

(* ================= scheduler notifications: claims ===================== *)

\* C28: a notification the scheduler issues for an order announces a change
\* of status that the save following it stores, and an order stored as
\* delivered is not announced as delivered again.
C28_NotifiesWhatIsPersisted ==
  [][ \A p \in Pollers :
        /\ (poll[p].pc = "save" /\ last'.op = "poll" /\ last'.step = "save"
              /\ last'.p = p /\ last.op = "poll" /\ last.p = p
              /\ last.step = "fetch" /\ last.notifs # <<>>) =>
             /\ last'.outcome = "ok"
             /\ orders'[last'.id].shipmentStatus = last.to
        /\ (poll[p].pc = "fetch" /\ last'.op = "poll" /\ last'.step = "fetch"
              /\ last'.p = p /\ "order_delivered" \in Range(last'.notifs)) =>
             orders[last'.id].shipmentStatus # "delivered" ]_vars

\* C28 witness: the scheduler has issued the delivered notification of an
\* order and is about to save it
C28_Witness ==
  /\ poll["p1"].pc = "save"
  /\ last.op = "poll" /\ last.step = "fetch" /\ last.p = "p1"
  /\ last.notifs = <<"order_delivered">>
  /\ poll["p1"].cur.shipmentStatus = "delivered"
  /\ orders[last.id].shipmentStatus = "in_transit"

(* ========================== fairness: claims =========================== *)

\* an invocation has just worked on order id: its carrier call or its save
Processed(id) ==
  /\ last.op = "poll" /\ last.step \in {"fetch", "save"}
  /\ last.id = id

\* C29: under repeated invocations every due order is eventually processed
\* by some invocation, also when BATCH_LIMIT or more other due orders fail on
\* every run. Stated for the orders that fell due last; the BATCH_LIMIT - 1
\* orders ahead of them are in every batch.
C29_EveryDueOrderProcessed ==
  \A id \in BATCH_LIMIT..(BATCH_LIMIT + 2) :
    isDue(orders[id], now) ~> Processed(id)

\* C29 witness: a run has gone through a whole batch of failing orders and
\* the orders behind them are still due
C29_Witness ==
  /\ poll["p1"].pc = "idle"
  /\ last.op = "poll" /\ last.step = "fetch" /\ last.outcome = "error"
  /\ last.code = 200 /\ last.processed = BATCH_LIMIT
  /\ last.id = BATCH_LIMIT
  /\ \A id \in StarveIds : isDue(orders[id], now)

(* ========================= attempt ceiling: claims ===================== *)

\* polling of the order was given up: nextPollAt stored as null, not delivered
Abandoned(d) == d.nextPollAt = Null /\ d.shipmentStatus # "delivered"

\* C30: when invocations and attachments follow one another, pollAttempts
\* never exceeds 120, every reconciliation step that saves an order adds
\* exactly 1 to it, and an order whose polling was given up is not selected
\* by an invocation: only an attachment changes it, setting pollAttempts to 0.
C30_AttemptsWithinCeiling ==
  [][ \A id \in OrderIds :
        /\ orders[id].pollAttempts <= 120 /\ orders'[id].pollAttempts <= 120
        /\ (poll["p1"].pc = "save" /\ poll["p1"].due[poll["p1"].i] = id
              /\ last'.op = "poll" /\ last'.step = "save" /\ last'.outcome = "ok") =>
             orders'[id].pollAttempts = orders[id].pollAttempts + 1
        /\ Abandoned(orders[id]) =>
             /\ (poll["p1"].pc = "idle" /\ poll'["p1"].pc # "idle") =>
                  id \notin Range(poll'["p1"].due)
             /\ orders'[id] # orders[id] =>
                  /\ att.pc = "save" /\ att.id = id
                  /\ orders'[id].pollAttempts = 0 ]_vars

\* C30 witness: an order given up at 120 attempts is passed over by an
\* invocation that runs an hour later
C30_Witness ==
  /\ last.op = "poll" /\ last.step = "begin" /\ last.code = 200
  /\ now > StartTime
  /\ Abandoned(orders["o1"])
  /\ orders["o1"].pollAttempts = 120
  /\ IsDate(orders["o1"].lastPolledAt) /\ orders["o1"].lastPolledAt.t < now

====
